---- MODULE Spec2Model ----
(***************************************************************************)
(* A model of spotgen's entry-resolution engine (spotify.js): the Playlist *)
(* pipeline, the Queue collection and the Track / Album / Artist entries,  *)
(* with the Spotify Web API and Last.fm as a nondeterministic remote.      *)
(*                                                                         *)
(* JavaScript strings are sequences of one-character strings, so that      *)
(* substring, trim, toLowerCase and the regular expressions of the source  *)
(* are computed and not assumed.                                           *)
(***************************************************************************)
EXTENDS Integers, Sequences, FiniteSets, TLC

(***************************************************************************)
(* Bounds of the model.                                                    *)
(***************************************************************************)
MaxEntries == 2
MaxAlbums == 2
MaxDispatch == 2

\* the number of entry lines of the playlists dispatched under fairness
MaxLines == 1

\* the number of method calls the caller of the Queue methods makes
MaxCalls == 2

\* the length of the arrays given to sort.stableSort
MaxArr == 3

\* the number of comparison functions given to sort.combine
MaxCmp == 3

(***************************************************************************)
(* Strings.                                                                *)
(***************************************************************************)
UpperCase ==
  <<"A", "B", "C", "D", "E", "F", "G", "H", "I", "J", "K", "L", "M",
    "N", "O", "P", "Q", "R", "S", "T", "U", "V", "W", "X", "Y", "Z">>

LowerCase ==
  <<"a", "b", "c", "d", "e", "f", "g", "h", "i", "j", "k", "l", "m",
    "n", "o", "p", "q", "r", "s", "t", "u", "v", "w", "x", "y", "z">>

\* the lower-case letter of every upper-case letter
LowerOf == [c \in {UpperCase[i] : i \in 1..26} |-> LowerCase[CHOOSE i \in 1..26 : UpperCase[i] = c]]

Lower(c) == IF c \in DOMAIN LowerOf THEN LowerOf[c] ELSE c

toLowerCase(s) == [i \in 1..Len(s) |-> Lower(s[i])]

\* str.substring(n): the characters from 0-based index n to the end
substring(s, n) == SubSeq(s, n + 1, Len(s))

RECURSIVE trimLeft(_)
trimLeft(s) == IF s # <<>> /\ Head(s) = " " THEN trimLeft(Tail(s)) ELSE s

RECURSIVE trimRight(_)
trimRight(s) ==
  IF s # <<>> /\ s[Len(s)] = " " THEN trimRight(SubSeq(s, 1, Len(s) - 1)) ELSE s

trim(s) == trimRight(trimLeft(s))

\* str.match(/^prefix/i)
matchPrefixI(s, prefix) ==
  /\ Len(s) >= Len(prefix)
  /\ toLowerCase(SubSeq(s, 1, Len(prefix))) = toLowerCase(prefix)

RECURSIVE encodeURIComponent(_)
encodeURIComponent(s) ==
  IF s = <<>> THEN <<>>
  ELSE (CASE Head(s) = "/" -> <<"%", "2", "F">>
          [] Head(s) = ":" -> <<"%", "3", "A">>
          [] Head(s) = " " -> <<"%", "2", "0">>
          [] OTHER -> <<Head(s)>>) \o encodeURIComponent(Tail(s))

DigitValue ==
  [c \in {"0", "1", "2", "3", "4", "5", "6", "7", "8", "9"} |->
     CASE c = "0" -> 0 [] c = "1" -> 1 [] c = "2" -> 2 [] c = "3" -> 3
       [] c = "4" -> 4 [] c = "5" -> 5 [] c = "6" -> 6 [] c = "7" -> 7
       [] c = "8" -> 8 [] c = "9" -> 9]

\* parseInt on a string of decimal digits
RECURSIVE parseInt(_)
parseInt(s) ==
  IF s = <<>> THEN 0
  ELSE 10 * parseInt(SubSeq(s, 1, Len(s) - 1)) + DigitValue[s[Len(s)]]

URIPrefix == <<"s", "p", "o", "t", "i", "f", "y", ":", "t", "r", "a", "c", "k", ":">>

HostPath ==
  <<"o", "p", "e", "n", ".", "s", "p", "o", "t", "i", "f", "y", ".", "c", "o", "m",
    "/", "t", "r", "a", "c", "k", "/">>

HttpPrefix == <<"h", "t", "t", "p", ":", "/", "/">> \o HostPath

HttpsPrefix == <<"h", "t", "t", "p", "s", ":", "/", "/">> \o HostPath

\* the value -1 that the id() accessors return for "unknown", as it appears
\* in a request URL
MinusOne == <<"-", "1">>

(***************************************************************************)
(* Values.  Null stands for null / undefined fields, Undefined for the     *)
(* value undefined as an element of a queue.                               *)
(***************************************************************************)
Null == [kind |-> "null"]

Undefined == [kind |-> "undefined"]

NewQueue(q) == [kind |-> "Queue", queue |-> q]

(***************************************************************************)
(* The remote catalogue: the JSON objects the Spotify Web API and Last.fm  *)
(* answer with.  An absent property is the empty string (or 0 for a        *)
(* number), which is falsy in JavaScript as the absent property is.        *)
(***************************************************************************)
TrackIds == {<<"a">>, <<"b">>, <<"c">>, <<"d">>}

TitleOf(id) ==
  CASE id = <<"a">> -> <<"X">> [] id = <<"b">> -> <<"x">> [] id = <<"c">> -> <<"y">>
    [] OTHER -> <<"z">>

ArtistOf(id) == CASE id = <<"c">> -> <<"1">> [] OTHER -> <<"2">>

AlbumOf(id) == CASE id \in {<<"c">>, <<"d">>} -> <<"H">> [] OTHER -> <<"K">>

PopularityOf(id) == CASE id = <<"a">> -> 1 [] OTHER -> 2

PlaycountOf(title) == CASE title = <<"X">> -> <<"7">> [] OTHER -> <<"1", "0">>

\* the record of track c has no uri, as that of a track that cannot be played
UriOf(id) == IF id = <<"c">> THEN <<>> ELSE URIPrefix \o id

\* a simplified track object: no popularity, no album
SimplifiedTrack(id) ==
  [id |-> id, uri |-> UriOf(id), name |-> TitleOf(id),
   artist |-> ArtistOf(id), album |-> <<>>, popularity |-> 0]

\* a full track object
FullTrack(id) ==
  [id |-> id, uri |-> UriOf(id), name |-> TitleOf(id),
   artist |-> ArtistOf(id), album |-> AlbumOf(id), popularity |-> PopularityOf(id)]

AlbumIds == {<<"p">>, <<"q">>}

TracksOf(id) ==
  CASE id = <<"p">> -> <<SimplifiedTrack(<<"a">>), SimplifiedTrack(<<"b">>)>>
    [] OTHER -> <<SimplifiedTrack(<<"c">>), SimplifiedTrack(<<"d">>)>>

\* an album object as listed for an artist: an id, no track listing
SimplifiedAlbum(id) == [id |-> id, hasTracks |-> FALSE, items |-> <<>>]

\* a full album object: an id and a track listing
FullAlbum(id) == [id |-> id, hasTracks |-> TRUE, items |-> TracksOf(id)]

ArtistIds == {<<"r">>}

Discography == <<SimplifiedAlbum(<<"p">>), SimplifiedAlbum(<<"q">>), SimplifiedAlbum(<<"p">>),
                 SimplifiedAlbum(<<"q">>)>>

\* the body of a search response: the first page of matches
SearchBody(items) == [type |-> "search", items |-> items]

(***************************************************************************)
(* Track entries.                                                          *)
(***************************************************************************)
isURI(str) == matchPrefixI(str, URIPrefix)

isLink(str) == matchPrefixI(str, HttpPrefix) \/ matchPrefixI(str, HttpsPrefix)

isFullResponse(response) == response # Null /\ response.popularity # 0

Track(oid, entry, response) ==
  [kind |-> "Track", oid |-> oid, entry |-> trim(entry),
   responseSimple |-> IF isFullResponse(response) THEN Null ELSE response,
   response |-> IF isFullResponse(response) THEN response ELSE Null,
   lastfmResponse |-> Null]

TrackId(self) ==
  IF self.response # Null /\ self.response.id # <<>> THEN self.response.id
  ELSE IF self.responseSimple # Null /\ self.responseSimple.id # <<>>
       THEN self.responseSimple.id
  ELSE IF isURI(self.entry) THEN substring(self.entry, 14)
  ELSE IF isLink(self.entry) THEN substring(self.entry, 30)
  ELSE MinusOne

TrackUri(self) ==
  IF self.response # Null THEN self.response.uri
  ELSE IF self.responseSimple # Null THEN self.responseSimple.uri
  ELSE <<>>

TrackPopularity(self) == IF self.response # Null THEN self.response.popularity ELSE -1

TrackLastfm(self) ==
  IF self.lastfmResponse # Null THEN parseInt(self.lastfmResponse.playcount) ELSE -1

\* self.response || self.responseSimple
TrackData(self) == IF self.response # Null THEN self.response ELSE self.responseSimple

TrackArtist(self) ==
  IF TrackData(self) # Null /\ TrackData(self).artist # <<>>
  THEN trim(TrackData(self).artist) ELSE <<>>

TrackTitle(self) ==
  IF TrackData(self) # Null /\ TrackData(self).name # <<>>
  THEN TrackData(self).name ELSE <<>>

TrackAlbum(self) ==
  IF self.response # Null /\ self.response.album # <<>> THEN self.response.album ELSE <<>>

TrackName(self) ==
  IF TrackTitle(self) # <<>>
  THEN (IF TrackArtist(self) # <<>>
        THEN TrackTitle(self) \o <<" ", "-", " ">> \o TrackArtist(self)
        ELSE TrackTitle(self))
  ELSE <<>>

TrackToString(self) == IF TrackName(self) # <<>> THEN TrackName(self) ELSE self.entry

TrackEquals(self, track) ==
  toLowerCase(TrackToString(self)) = toLowerCase(TrackToString(track))

\* the resolution state of a Track (section 3 of the design)
TrackState(self) ==
  IF self.response # Null THEN "FULL"
  ELSE IF self.responseSimple # Null THEN "SIMPLIFIED"
  ELSE "UNRESOLVED"

(***************************************************************************)
(* Album and Artist entries.                                               *)
(***************************************************************************)
isSearchResponse(response) ==
  /\ response # Null
  /\ "type" \in DOMAIN response
  /\ response.items # <<>>
  /\ response.items[1].id # <<>>

isAlbumResponse(response) ==
  /\ response # Null
  /\ "id" \in DOMAIN response
  /\ response.id # <<>>

Album(oid, entry, response) ==
  [kind |-> "Album", oid |-> oid, entry |-> trim(entry),
   searchResponse |-> IF isSearchResponse(response) THEN response ELSE Null,
   albumResponse |-> IF ~isSearchResponse(response) /\ isAlbumResponse(response)
                     THEN response ELSE Null]

AlbumId(self) ==
  IF self.albumResponse # Null /\ self.albumResponse.id # <<>> THEN self.albumResponse.id
  ELSE IF isSearchResponse(self.searchResponse) THEN self.searchResponse.items[1].id
  ELSE MinusOne

Artist(oid, entry) ==
  [kind |-> "Artist", oid |-> oid, entry |-> trim(entry), artistResponse |-> Null]

ArtistId(self) ==
  IF isSearchResponse(self.artistResponse) THEN self.artistResponse.items[1].id
  ELSE MinusOne

(***************************************************************************)
(* Remote requests.  A request is the endpoint and the URL-encoded         *)
(* argument appended to it; the remote answers any request with a failure  *)
(* or with one of the bodies of the catalogue.                             *)
(***************************************************************************)
NoReq == [type |-> "none", arg |-> <<>>, arg2 |-> <<>>]

\* spotify.request(url), url = endpoint + encodeURIComponent(arg)
request(type, arg) == [type |-> type, arg |-> encodeURIComponent(arg), arg2 |-> <<>>]

\* lastfm.getInfo(artist, title)
getInfo(artist, title) == [type |-> "lastfm", arg |-> artist, arg2 |-> title]

Failure == [ok |-> FALSE, body |-> Null]

Success(body) == [ok |-> TRUE, body |-> body]

Listing(n) == [hasItems |-> TRUE, items |-> SubSeq(Discography, 1, n)]

Respond(req) ==
  {Failure} \cup
  CASE req.type = "searchTrack" ->
         {Success(SearchBody(<<>>))} \cup
         {Success(SearchBody(<<SimplifiedTrack(t)>>)) : t \in {<<"a">>, <<"b">>}}
    [] req.type = "fetchTrack" ->
         IF req.arg \in TrackIds THEN {Success(FullTrack(req.arg))} ELSE {}
    [] req.type = "searchAlbum" ->
         {Success(SearchBody(<<>>)), Success(SearchBody(<<SimplifiedAlbum(<<"p">>)>>))}
    [] req.type = "fetchAlbum" ->
         IF req.arg \in AlbumIds
         THEN {Success(FullAlbum(req.arg)), Success(SimplifiedAlbum(req.arg)),
               Success(SimplifiedAlbum(<<>>))}
         ELSE {}
    [] req.type = "searchArtist" ->
         {Success(SearchBody(<<>>)), Success(SearchBody(<<[id |-> <<"r">>]>>))}
    [] req.type = "fetchAlbums" ->
         IF req.arg \in ArtistIds
         THEN {Success([hasItems |-> FALSE, items |-> <<>>])} \cup
              {Success(Listing(n)) : n \in {0, MaxAlbums}}
         ELSE {}
    [] req.type = "lastfm" ->
         {Success([playcount |-> PlaycountOf(req.arg2)])}
    [] OTHER -> {}

(***************************************************************************)
(* One step of an entry's promise chain: the entry as the step leaves it   *)
(* and what the chain does next - wait for a request ("pending"), resolve  *)
(* with a value, reject, or dispatch a queue of albums ("nested").         *)
(***************************************************************************)
Pending(self, req) ==
  [next |-> "pending", obj |-> self, req |-> req, value |-> Null, queue |-> <<>>,
   cause |-> "", used |-> 0]

Resolved(self, value, used) ==
  [next |-> "resolved", obj |-> self, req |-> NoReq, value |-> value, queue |-> <<>>,
   cause |-> "", used |-> used]

Rejected(self, cause) ==
  [next |-> "rejected", obj |-> self, req |-> NoReq, value |-> Null, queue |-> <<>>,
   cause |-> cause, used |-> 0]

Nested(self, queue) ==
  [next |-> "nested", obj |-> self, req |-> NoReq, value |-> Null, queue |-> queue,
   cause |-> "", used |-> Len(queue)]

fetchTrack(self) == Pending(self, request("fetchTrack", TrackId(self)))

searchForTrack(self, query) == Pending(self, request("searchTrack", query))

\* the URI form of the entry is not recognised
TrackDispatchNoURI(self) ==
  IF self.response # Null THEN Resolved(self, self, 0)
  ELSE IF self.responseSimple # Null THEN fetchTrack(self)
  ELSE searchForTrack(self, self.entry)

\* a full Track is fetched again
TrackDispatchRefetch(self) ==
  IF self.response # Null THEN fetchTrack(self)
  ELSE IF self.responseSimple # Null THEN fetchTrack(self)
  ELSE IF isURI(self.entry) THEN fetchTrack(self)
  ELSE searchForTrack(self, self.entry)

TrackDispatch(self) ==
  IF self.response # Null THEN Resolved(self, self, 0)
  ELSE IF self.responseSimple # Null THEN fetchTrack(self)
  ELSE IF isURI(self.entry) THEN fetchTrack(self)
  ELSE searchForTrack(self, self.entry)

\* the full record takes the place of the search match
fetchTrackThenReplace(self, result) ==
  Resolved([self EXCEPT !.response = result, !.responseSimple = Null],
           [self EXCEPT !.response = result, !.responseSimple = Null], 0)

\* the callback of fetchTrack
fetchTrackThen(self, result) ==
  Resolved([self EXCEPT !.response = result], [self EXCEPT !.response = result], 0)

\* the match is stored as the full record
searchForTrackThenFull(self, result) ==
  IF result.items # <<>> /\ result.items[1].uri # <<>>
  THEN Resolved([self EXCEPT !.response = result.items[1]],
                [self EXCEPT !.response = result.items[1]], 0)
  ELSE Resolved(self, Undefined, 0)

\* the callback of searchForTrack: without a match it returns nothing
searchForTrackThen(self, result) ==
  IF result.items # <<>> /\ result.items[1].uri # <<>>
  THEN Resolved([self EXCEPT !.responseSimple = result.items[1]],
                [self EXCEPT !.responseSimple = result.items[1]], 0)
  ELSE Resolved(self, Undefined, 0)

fetchLastfm(self) == Pending(self, getInfo(TrackArtist(self), TrackTitle(self)))

\* the rating is stored where the search match is kept
fetchLastfmThenSimple(self, result) ==
  Resolved([self EXCEPT !.lastfmResponse = result, !.responseSimple = Null],
           [self EXCEPT !.lastfmResponse = result, !.responseSimple = Null], 0)

fetchLastfmThen(self, result) ==
  Resolved([self EXCEPT !.lastfmResponse = result], [self EXCEPT !.lastfmResponse = result], 0)

fetchAlbum(self) == Pending(self, request("fetchAlbum", AlbumId(self)))

searchForAlbum(self, query) == Pending(self, request("searchAlbum", query))

\* the search is repeated whatever the Album holds
AlbumDispatchSearchAgain(self) == searchForAlbum(self, self.entry)

AlbumDispatch(self) ==
  IF self.searchResponse # Null THEN fetchAlbum(self)
  ELSE IF self.albumResponse # Null THEN fetchAlbum(self)
  ELSE searchForAlbum(self, self.entry)

\* the Tracks are constructed with their titles as entry text
AlbumCreateQueueTitled(self, response, oid) ==
  IF ~response.hasTracks THEN Rejected(self, "lookup")
  ELSE Resolved(self,
                NewQueue([i \in 1..Len(response.items) |->
                            Track(oid + i - 1, response.items[i].name, response.items[i])]),
                Len(response.items))

\* the Tracks are added last to first
AlbumCreateQueueReversed(self, response, oid) ==
  IF ~response.hasTracks THEN Rejected(self, "lookup")
  ELSE Resolved(self,
                NewQueue([i \in 1..Len(response.items) |->
                            Track(oid + i - 1, self.entry,
                                  response.items[Len(response.items) + 1 - i])]),
                Len(response.items))

AlbumCreateQueue(self, response, oid) ==
  IF ~response.hasTracks THEN Rejected(self, "lookup")
  ELSE Resolved(self,
                NewQueue([i \in 1..Len(response.items) |->
                            Track(oid + i - 1, self.entry, response.items[i])]),
                Len(response.items))

\* the callback of searchForAlbum, followed by fetchAlbum
searchForAlbumThen(self, response) ==
  IF isSearchResponse(response)
  THEN fetchAlbum([self EXCEPT !.searchResponse = response])
  ELSE Rejected(self, "lookup")

\* the callback of fetchAlbum, followed by createQueue; the callback stores
\* the response in this.albumResponse, and this is not the Album
fetchAlbumThen(self, response, oid) ==
  IF isAlbumResponse(response)
  THEN AlbumCreateQueue(self, response, oid)
  ELSE Rejected(self, "lookup")

searchForArtist(self, query) == Pending(self, request("searchArtist", query))

fetchAlbums(self) == Pending(self, request("fetchAlbums", ArtistId(self)))

ArtistDispatch(self) == searchForArtist(self, self.entry)

ArtistCreateQueue(self, response, oid) ==
  Nested(self, [i \in 1..Len(response.items) |->
                  Album(oid + i - 1, self.entry, response.items[i])])

\* the callback of searchForArtist, followed by fetchAlbums
searchForArtistThen(self, response) ==
  IF isSearchResponse(response)
  THEN fetchAlbums([self EXCEPT !.artistResponse = response])
  ELSE Rejected(self, "lookup")

\* the callback of fetchAlbums, followed by createQueue; here too the
\* response is stored in this.albumResponse, which is not the Artist
fetchAlbumsThen(self, response, oid) ==
  IF response.hasItems
  THEN ArtistCreateQueue(self, response, oid)
  ELSE Rejected(self, "lookup")

\* entry.dispatch() for an element of a queue
EntryDispatch(entry) ==
  CASE entry.kind = "Track" -> TrackDispatch(entry)
    [] entry.kind = "Album" -> AlbumDispatch(entry)
    [] entry.kind = "Artist" -> ArtistDispatch(entry)
    [] OTHER -> Rejected(entry, "TypeError")

\* entry.fetchLastfm() for an element of a queue
EntryFetchLastfm(entry) ==
  IF entry.kind = "Track" THEN fetchLastfm(entry) ELSE Rejected(entry, "TypeError")

\* the request of an entry has settled: run the callbacks chained on it
Settled(entry, req, outcome, oid) ==
  IF ~outcome.ok THEN Rejected(entry, "lookup")
  ELSE CASE req.type = "searchTrack" -> searchForTrackThen(entry, outcome.body)
         [] req.type = "fetchTrack" -> fetchTrackThen(entry, outcome.body)
         [] req.type = "lastfm" -> fetchLastfmThen(entry, outcome.body)
         [] req.type = "searchAlbum" -> searchForAlbumThen(entry, outcome.body)
         [] req.type = "fetchAlbum" -> fetchAlbumThen(entry, outcome.body, oid)
         [] req.type = "searchArtist" -> searchForArtistThen(entry, outcome.body)
         [] OTHER -> fetchAlbumsThen(entry, outcome.body, oid)

(***************************************************************************)
(* Queue operations on the array of a Queue.  An operation that throws a   *)
(* TypeError yields Thrown.                                                *)
(***************************************************************************)
Thrown == [threw |-> TRUE, queue |-> <<>>]

Returned(q) == [threw |-> FALSE, queue |-> q]

\* the entry is put in front of the others
addFirst(queue, entry) == <<entry>> \o queue

\* Queue.add: self.queue.push(entry)
add(queue, entry) == Append(queue, entry)

\* the queues among the entries are opened, the queues inside them are not
RECURSIVE flattenOnce(_)
flattenOnce(q) ==
  IF q = <<>> THEN <<>>
  ELSE (IF Head(q).kind = "Queue" THEN Head(q).queue ELSE <<Head(q)>>)
       \o flattenOnce(Tail(q))

RECURSIVE flatten(_)
flatten(q) ==
  IF q = <<>> THEN <<>>
  ELSE (IF Head(q).kind = "Queue" THEN flatten(Head(q).queue) ELSE <<Head(q)>>)
       \o flatten(Tail(q))

\* (entry.equals && entry.equals(obj)) || entry === obj, for an entry that
\* is not undefined
EntryMatches(entry, obj) ==
  \/ entry.kind = "Track" /\ obj.kind = "Track" /\ TrackEquals(entry, obj)
  \/ entry = obj

\* entry === obj alone
RECURSIVE containsSame(_, _)
containsSame(q, obj) ==
  IF q = <<>> THEN "false"
  ELSE IF Head(q) = obj THEN "true"
  ELSE containsSame(Tail(q), obj)

\* "true", "false" or "throw": reading a property of undefined throws
RECURSIVE contains(_, _)
contains(q, obj) ==
  IF q = <<>> THEN "false"
  ELSE IF Head(q).kind = "undefined" THEN "throw"
  ELSE IF Head(q).kind = "Track" /\ obj.kind = "undefined" THEN "throw"
  ELSE IF EntryMatches(Head(q), obj) THEN "true"
  ELSE contains(Tail(q), obj)

RECURSIVE dedupFrom(_, _)
dedupFrom(q, result) ==
  IF q = <<>> THEN Returned(result)
  ELSE IF contains(result, Head(q)) = "throw" THEN Thrown
  ELSE IF contains(result, Head(q)) = "true" THEN dedupFrom(Tail(q), result)
  ELSE dedupFrom(Tail(q), Append(result, Head(q)))

dedup(q) == dedupFrom(q, <<>>)

\* the orders in which the indices of S can follow one another in a sorted
\* array, for the comparison matrix cmp
RECURSIVE SortedOrders(_, _)
SortedOrders(S, cmp) ==
  IF S = {} THEN {<<>>}
  ELSE UNION {{<<i>> \o rest : rest \in SortedOrders(S \ {i}, cmp)} :
                i \in {i \in S : \A j \in S : cmp[i][j] <= 0}}

\* Array.prototype.sort(fn): the array ordered by fn; the order of elements
\* that fn ranks equal is left to the engine
byPopularity(a, b) ==
  IF TrackPopularity(a) < TrackPopularity(b) THEN 1
  ELSE IF TrackPopularity(a) > TrackPopularity(b) THEN -1 ELSE 0

byLastfm(a, b) ==
  IF TrackLastfm(a) < TrackLastfm(b) THEN 1
  ELSE IF TrackLastfm(a) > TrackLastfm(b) THEN -1 ELSE 0

\* fn(a, b) for the comparison function passed to Queue.sort
compare(fn, a, b) ==
  IF fn = "byPopularity" THEN byPopularity(a, b) ELSE byLastfm(a, b)

sort(q, fn) ==
  LET cmp == [i \in 1..Len(q) |-> [j \in 1..Len(q) |-> compare(fn, q[i], q[j])]]
  IN {[n \in 1..Len(q) |-> q[order[n]]] : order \in SortedOrders(1..Len(q), cmp)}

\* a property name that is an array index: for (k in map) visits these
\* first, in ascending numeric order, and the other names after them in the
\* order of their creation
isArrayIndex(key) ==
  /\ key # <<>>
  /\ \A i \in 1..Len(key) : key[i] \in DOMAIN DigitValue
  /\ key = <<"0">> \/ key[1] # "0"

\* the keys of the sequence ks without repetition, in order of appearance
RECURSIVE firstAppearances(_, _)
firstAppearances(ks, seen) ==
  IF ks = <<>> THEN <<>>
  ELSE IF Head(ks) \in seen THEN firstAppearances(Tail(ks), seen)
  ELSE <<Head(ks)>> \o firstAppearances(Tail(ks), seen \cup {Head(ks)})

RECURSIVE ascendingIndices(_)
ascendingIndices(S) ==
  IF S = {} THEN <<>>
  ELSE LET k == CHOOSE k \in S : \A l \in S : parseInt(k) <= parseInt(l)
       IN <<k>> \o ascendingIndices(S \ {k})

\* the property names of map in for-in order
forInOrder(ks) ==
  ascendingIndices({ks[i] : i \in {i \in 1..Len(ks) : isArrayIndex(ks[i])}})
  \o SelectSeq(firstAppearances(ks, {}), LAMBDA k : ~isArrayIndex(k))

RECURSIVE concatBuckets(_, _, _)
concatBuckets(order, q, ks) ==
  IF order = <<>> THEN <<>>
  ELSE LET idx == {i \in 1..Len(q) : ks[i] = Head(order)}
           pick[n \in 0..Len(q)] ==
             IF n = 0 THEN <<>>
             ELSE IF n \in idx THEN Append(pick[n - 1], q[n]) ELSE pick[n - 1]
       IN pick[Len(q)] \o concatBuckets(Tail(order), q, ks)

EntryText(track) == track.entry

\* fn(entry) for the key function passed to Queue.group
keyOf(fn, entry) ==
  CASE fn = "artist" -> TrackArtist(entry)
    [] fn = "album" -> TrackAlbum(entry)
    [] OTHER -> EntryText(entry)

group(q, fn) ==
  IF \E i \in 1..Len(q) : q[i].kind = "undefined" THEN Thrown
  ELSE LET ks == [i \in 1..Len(q) |-> keyOf(fn, q[i])]
       IN Returned(concatBuckets(forInOrder(ks), q, ks))

\* Playlist.toString: the URIs of the tracks, one per line
RECURSIVE uris(_)
uris(q) ==
  IF q = <<>> THEN <<>>
  ELSE (IF TrackUri(Head(q)) # <<>> THEN <<TrackUri(Head(q))>> ELSE <<>>) \o uris(Tail(q))

\* a line is written for every track, with or without a URI
playlistToStringAll(q) ==
  IF \E i \in 1..Len(q) : q[i].kind = "undefined" THEN Thrown
  ELSE Returned([i \in 1..Len(q) |-> TrackUri(q[i])])

playlistToString(q) ==
  IF \E i \in 1..Len(q) : q[i].kind = "undefined" THEN Thrown ELSE Returned(uris(q))

(***************************************************************************)
(* The comparison functions of sort.js.  A comparison function is the      *)
(* closure that made it; call evaluates it on two arguments and gives its  *)
(* value with the synthetic comparison functions it consulted on the way.  *)
(***************************************************************************)
\* a synthetic comparison function, the n-th of its list, returning val
synthetic(n, val) == [op |-> "synthetic", at |-> n, val |-> val]

identity(x) == x

ascending(fn) == [op |-> "ascending", fn |-> fn]

descending(fn) == [op |-> "descending", fn |-> fn]

\* function (a, b) { return fn(a.val, b.val) } in stableSort
onVal(fn) == [op |-> "onVal", fn |-> fn]

\* the function that the callback of combine returns for fn1 and fn2
callback(fn1, fn2) == [op |-> "callback", fn1 |-> fn1, fn2 |-> fn2]

\* the scoring functions: identity, key of stableSort, that of sort.popularity
score(fn, x) ==
  CASE fn = "key" -> x.key
    [] fn = "popularity" -> IF x.popularity # 0 THEN x.popularity ELSE -1
    [] OTHER -> identity(x)

\* both comparison functions are always called
RECURSIVE callBoth(_, _, _)
callBoth(cmp, a, b) ==
  CASE cmp.op = "synthetic" -> [val |-> cmp.val, consulted |-> <<cmp.at>>]
    [] cmp.op = "ascending" ->
         [val |-> IF score(cmp.fn, a) < score(cmp.fn, b) THEN -1
                  ELSE IF score(cmp.fn, a) > score(cmp.fn, b) THEN 1 ELSE 0,
          consulted |-> <<>>]
    [] cmp.op = "descending" ->
         [val |-> IF score(cmp.fn, a) < score(cmp.fn, b) THEN 1
                  ELSE IF score(cmp.fn, a) > score(cmp.fn, b) THEN -1 ELSE 0,
          consulted |-> <<>>]
    [] cmp.op = "onVal" -> callBoth(cmp.fn, a.val, b.val)
    [] OTHER ->
         LET val == callBoth(cmp.fn1, a, b)
             next == callBoth(cmp.fn2, a, b)
         IN [val |-> IF val.val = 0 THEN next.val ELSE val.val,
             consulted |-> val.consulted \o next.consulted]

RECURSIVE call(_, _, _)
call(cmp, a, b) ==
  CASE cmp.op = "synthetic" -> [val |-> cmp.val, consulted |-> <<cmp.at>>]
    [] cmp.op = "ascending" ->
         [val |-> IF score(cmp.fn, a) < score(cmp.fn, b) THEN -1
                  ELSE IF score(cmp.fn, a) > score(cmp.fn, b) THEN 1 ELSE 0,
          consulted |-> <<>>]
    [] cmp.op = "descending" ->
         [val |-> IF score(cmp.fn, a) < score(cmp.fn, b) THEN 1
                  ELSE IF score(cmp.fn, a) > score(cmp.fn, b) THEN -1 ELSE 0,
          consulted |-> <<>>]
    [] cmp.op = "onVal" -> call(cmp.fn, a.val, b.val)
    [] OTHER ->
         LET val == call(cmp.fn1, a, b)
         IN IF val.val = 0
            THEN [val |-> call(cmp.fn2, a, b).val,
                  consulted |-> val.consulted \o call(cmp.fn2, a, b).consulted]
            ELSE val

\* args.reduce(callback)
RECURSIVE reduce(_, _)
reduce(args, n) ==
  IF n = 1 THEN args[1] ELSE callback(reduce(args, n - 1), args[n])

combine(args) == reduce(args, Len(args))

popularity == descending("popularity")

\* the array is given to the sort primitive as it is, with fn
stableSortPlain(arr, fn) ==
  LET cmp == [i \in 1..Len(arr) |-> [j \in 1..Len(arr) |-> call(fn, arr[i], arr[j]).val]]
  IN {[n \in 1..Len(arr) |-> arr[order[n]]] : order \in SortedOrders(1..Len(arr), cmp)}

\* the arrays stableSort may return: the sort primitive orders the pairs by
\* fn on their values, then by their keys
stableSort(arr, fn) ==
  LET pairs == [i \in 1..Len(arr) |-> [key |-> i - 1, val |-> arr[i]]]
      decorated == combine(<<onVal(fn), ascending("key")>>)
      cmp == [i \in 1..Len(arr) |->
                [j \in 1..Len(arr) |-> call(decorated, pairs[i], pairs[j]).val]]
  IN {[n \in 1..Len(arr) |-> pairs[order[n]].val] :
        order \in SortedOrders(1..Len(arr), cmp)}

(***************************************************************************)
(* The Playlist constructor: the lines of the playlist text are directives *)
(* or entries.                                                             *)
(***************************************************************************)
OrderByPopularityLine ==
  <<"#", "O", "R", "D", "E", "R", " ", "B", "Y", " ", "P", "O", "P", "U", "L",
  "A", "R", "I", "T", "Y">>

OrderByLastfmLine ==
  <<"#", "O", "R", "D", "E", "R", " ", "B", "Y", " ", "L", "A", "S", "T", "F",
  "M">>

OrderByLastPrefix ==
  <<"#", "O", "R", "D", "E", "R", " ", "B", "Y", " ", "L", "A", "S", "T">>

GroupByEntryLine ==
  <<"#", "G", "R", "O", "U", "P", " ", "B", "Y", " ", "E", "N", "T", "R",
  "Y">>

GroupByArtistLine ==
  <<"#", "G", "R", "O", "U", "P", " ", "B", "Y", " ", "A", "R", "T", "I", "S",
  "T">>

GroupByAlbumLine ==
  <<"#", "G", "R", "O", "U", "P", " ", "B", "Y", " ", "A", "L", "B", "U",
  "M">>

UniqueLine ==
  <<"#", "U", "N", "I", "Q", "U", "E">>

AlbumTag ==
  <<"#", "A", "L", "B", "U", "M", " ">>

ArtistTag ==
  <<"#", "A", "R", "T", "I", "S", "T", " ">>

\* line.match(/^#ORDER BY LAST.?FM/i)
matchOrderByLastfm(line) ==
  \/ matchPrefixI(line, OrderByLastfmLine)
  \/ /\ matchPrefixI(line, OrderByLastPrefix)
     /\ Len(line) >= 17
     /\ toLowerCase(SubSeq(line, 16, 17)) = <<"f", "m">>

isDirective(line) ==
  \/ matchPrefixI(line, OrderByPopularityLine)
  \/ matchOrderByLastfm(line)
  \/ matchPrefixI(line, GroupByEntryLine)
  \/ matchPrefixI(line, GroupByArtistLine)
  \/ matchPrefixI(line, GroupByAlbumLine)
  \/ matchPrefixI(line, UniqueLine)

\* the last ordering directive of the lines decides; "none" is null
RECURSIVE parseOrdering(_, _)
parseOrdering(lines, ordering) ==
  IF lines = <<>> THEN ordering
  ELSE parseOrdering(Tail(lines),
         IF matchPrefixI(Head(lines), OrderByPopularityLine) THEN "popularity"
         ELSE IF matchOrderByLastfm(Head(lines)) THEN "lastfm"
         ELSE ordering)

\* the last grouping directive of the lines decides; "true" is the initial value
RECURSIVE parseGrouping(_, _)
parseGrouping(lines, grouping) ==
  IF lines = <<>> THEN grouping
  ELSE parseGrouping(Tail(lines),
         IF matchPrefixI(Head(lines), OrderByPopularityLine) THEN grouping
         ELSE IF matchOrderByLastfm(Head(lines)) THEN grouping
         ELSE IF matchPrefixI(Head(lines), GroupByEntryLine) THEN "entry"
         ELSE IF matchPrefixI(Head(lines), GroupByArtistLine) THEN "artist"
         ELSE IF matchPrefixI(Head(lines), GroupByAlbumLine) THEN "album"
         ELSE grouping)

\* the unique flag starts true and #UNIQUE sets it to true
RECURSIVE parseUnique(_, _)
parseUnique(lines, unique) ==
  IF lines = <<>> THEN unique
  ELSE parseUnique(Tail(lines),
         IF matchPrefixI(Head(lines), UniqueLine) THEN TRUE ELSE unique)

RECURSIVE parseEntries(_, _)
parseEntries(lines, queue) ==
  IF lines = <<>> THEN queue
  ELSE parseEntries(Tail(lines),
         IF isDirective(Head(lines)) THEN queue
         ELSE IF matchPrefixI(Head(lines), AlbumTag)
              THEN Append(queue, Album(Len(queue) + 1, substring(Head(lines), 7), Null))
         ELSE IF matchPrefixI(Head(lines), ArtistTag)
              THEN Append(queue, Artist(Len(queue) + 1, substring(Head(lines), 8)))
         ELSE IF Head(lines) # <<>>
              THEN Append(queue, Track(Len(queue) + 1, Head(lines), Null))
         ELSE queue)

\* str.trim() before the split: the first line loses its leading blanks and
\* the last line its trailing ones
trimText(lines) ==
  IF lines = <<>> THEN lines
  ELSE LET first == [lines EXCEPT ![1] = trimLeft(@)]
       IN [first EXCEPT ![Len(lines)] = trimRight(@)]

\* duplicates are removed only when the playlist has a #UNIQUE line
PlaylistOptIn(lines) ==
  [ordering |-> parseOrdering(trimText(lines), "none"),
   grouping |-> parseGrouping(trimText(lines), "true"),
   unique |-> parseUnique(trimText(lines), FALSE),
   entries |-> parseEntries(trimText(lines), <<>>)]

Playlist(lines) ==
  [ordering |-> parseOrdering(trimText(lines), "none"),
   grouping |-> parseGrouping(trimText(lines), "true"),
   unique |-> parseUnique(trimText(lines), TRUE),
   entries |-> parseEntries(trimText(lines), <<>>)]

(***************************************************************************)
(* The playlists of the model.                                             *)
(***************************************************************************)
UpperTextLine == <<"F", "O", "O">>

FreeTextLine ==
  <<"f", "o", "o">>

URILine ==
  <<"s", "p", "o", "t", "i", "f", "y", ":", "t", "r", "a", "c", "k", ":",
  "a">>

LinkLine ==
  <<"h", "t", "t", "p", ":", "/", "/", "o", "p", "e", "n", ".", "s", "p", "o",
  "t", "i", "f", "y", ".", "c", "o", "m", "/", "t", "r", "a", "c", "k", "/",
  "a">>

AlbumLine ==
  <<"#", "A", "L", "B", "U", "M", " ", "f", "o", "o">>

ArtistLine ==
  <<"#", "A", "R", "T", "I", "S", "T", " ", "f", "o", "o", " ">>

EntryLines == {FreeTextLine, URILine, LinkLine, AlbumLine, ArtistLine}

RECURSIVE SeqsUpTo(_, _)
SeqsUpTo(S, n) ==
  IF n = 0 THEN {<<>>}
  ELSE SeqsUpTo(S, n - 1) \cup
       {Append(q, x) : q \in {q \in SeqsUpTo(S, n - 1) : Len(q) = n - 1}, x \in S}

DirectiveLines ==
  {o \o g \o u :
     o \in {<<>>, <<OrderByPopularityLine>>, <<OrderByLastfmLine>>},
     g \in {<<>>, <<GroupByEntryLine>>, <<GroupByArtistLine>>, <<GroupByAlbumLine>>},
     u \in {<<>>, <<UniqueLine>>}}

PlaylistTexts == {d \o e : d \in DirectiveLines, e \in SeqsUpTo(EntryLines, MaxEntries)}

(***************************************************************************)
(* State.                                                                  *)
(***************************************************************************)
VARIABLES
  ordering,   \* Playlist.ordering ("none" for null)
  grouping,   \* Playlist.grouping ("true" for true)
  unique,     \* Playlist.unique
  entries,    \* the array of Playlist.entries, or of the queue of a client
  stage,      \* the position in the promise chain of Playlist.dispatch
  run,        \* the resolveAll call in progress on entries
  pass,       \* the number of resolveAll calls made on entries so far
  nextOid,    \* the identity the next object constructed gets
  reqLog,     \* history: the remote requests issued, in order
  failures,   \* history: the invocations and stages that failed
  delivered,  \* history: how each resolveAll call on entries settled
  output,     \* the string Playlist.dispatch resolved with, as its lines
  lib         \* the arrays and queues of a caller of the Queue methods

vars ==
  <<ordering, grouping, unique, entries, stage, run, pass, nextOid, reqLog,
    failures, delivered, output, lib>>

NoOutput == [resolved |-> FALSE, lines |-> <<>>]

\* arrays: the arrays allocated so far, an array being known by its position;
\* queue, other, result: the arrays that the property queue of three Queue
\* objects refers to (0: no such object yet); op: the last method called
NoLib ==
  [arrays |-> <<>>, queue |-> 0, other |-> 0, result |-> 0, op |-> "none", ops |-> 0,
   fn |-> [op |-> "none"], combined |-> [vals |-> <<>>, val |-> 0, consulted |-> <<>>]]

(***************************************************************************)
(* Queue.resolveAll: one slot of the promise chain per element.            *)
(***************************************************************************)
NewSlot == [st |-> "waiting", req |-> NoReq, sub |-> Null]

NoRun == [fn |-> "none", slots |-> <<>>, result |-> <<>>]

\* resolveAll(fn) on the array q: the chain is built, nothing is invoked yet
resolveAll(q, fn) == [fn |-> fn, slots |-> [i \in 1..Len(q) |-> NewSlot], result |-> <<>>]

\* queue.dispatch() on the queue of albums an Artist builds
NewSub(albums) ==
  [objs |-> albums, slots |-> [i \in 1..Len(albums) |-> NewSlot], result |-> <<>>]

\* every invocation is made at once, as Promise.all over a map would
ReadyAtOnce(slots, i) == TRUE

\* the chain is not extended: only the first element is ever invoked
ReadyFirstOnly(slots, i) == i = 1

\* ready.then(function () { return fn(entry) }): the invocation for element
\* i runs when the promise of element i - 1 has been fulfilled
Ready(slots, i) == IF i = 1 THEN TRUE ELSE slots[i - 1].st = "added"

\* the failure is swallowed and the chain goes on
SlotSkipFailure == [st |-> "added", req |-> NoReq, sub |-> Null]

\* a rejected promise skips the callbacks chained on it
SlotAfterFailure == [st |-> "rejected", req |-> NoReq, sub |-> Null]

SlotAfter(step) ==
  CASE step.next = "pending" -> [st |-> "pending", req |-> step.req, sub |-> Null]
    [] step.next = "resolved" -> [st |-> "added", req |-> NoReq, sub |-> Null]
    [] step.next = "nested" -> [st |-> "nested", req |-> NoReq, sub |-> NewSub(step.queue)]
    [] OTHER -> SlotAfterFailure

AllAdded(slots) == \A i \in DOMAIN slots : slots[i].st = "added"

AnyRejected(slots) == \E i \in DOMAIN slots : slots[i].st = "rejected"

Logged(path, obj, req) ==
  [pass |-> pass, path |-> path, oid |-> obj.oid, entry |-> obj.entry,
   type |-> req.type, arg |-> req.arg, arg2 |-> req.arg2]

\* cause is "lookup" for a remote lookup that failed (a failed request, no
\* match, a malformed body) and "TypeError" for a call on undefined; at is
\* the number of requests issued before the failure
Failed(path, cause) == [pass |-> pass, path |-> path, cause |-> cause, at |-> Len(reqLog)]

(***************************************************************************)
(* Initial states: a Playlist just constructed, or a client's Queue.       *)
(***************************************************************************)
InitWith(p, st) ==
  /\ ordering = p.ordering
  /\ grouping = p.grouping
  /\ unique = p.unique
  /\ entries = p.entries
  /\ stage = st
  /\ run = NoRun
  /\ pass = 0
  /\ nextOid = Len(p.entries) + 1
  /\ reqLog = <<>>
  /\ failures = <<>>
  /\ delivered = <<>>
  /\ output = NoOutput
  /\ lib = NoLib

Init == \E text \in PlaylistTexts : InitWith(Playlist(text), "new")

\* the playlists that name a track, an album or an artist by a text, under
\* every ordering and grouping
InitLive ==
  \E d \in {d \in DirectiveLines : UniqueLine \notin {d[i] : i \in DOMAIN d}} :
    \E e \in SeqsUpTo({FreeTextLine, AlbumLine, ArtistLine}, MaxLines) :
      e # <<>> /\ InitWith(Playlist(d \o e), "new")

InitClient ==
  \E text \in SeqsUpTo(EntryLines, MaxEntries) :
    text # <<>> /\ InitWith(Playlist(text), "client")

\* what a caller of new spotify.Album(entry, response) may pass as response:
\* nothing, a search response with a match, or an album record
AlbumSeeds == {Null, SearchBody(<<SimplifiedAlbum(<<"p">>)>>), FullAlbum(<<"p">>)}

\* the objects a caller may construct for the text "foo"
Constructed(oid) ==
  {Album(oid, FreeTextLine, response) : response \in AlbumSeeds}
    \cup {Artist(oid, FreeTextLine)}

\* a queue of entries the caller has constructed itself, as Artist.createQueue
\* does with the records of a listing
InitSeeded ==
  \E n \in 1..MaxEntries :
    \E q \in [1..n -> UNION {Constructed(oid) : oid \in 1..n}] :
      /\ \A i \in 1..n : q[i].oid = i
      /\ InitWith([ordering |-> "none", grouping |-> "none", unique |-> TRUE,
                   entries |-> q], "client")

(***************************************************************************)
(* The steps of a resolveAll chain.                                        *)
(***************************************************************************)
Rejection == [pass |-> pass, ok |-> FALSE, value |-> Null]

\* a step of the chain of the element at position i of entries
TopStep(i, step) ==
  LET slots == [run.slots EXCEPT ![i] = SlotAfter(step)]
      failed == AnyRejected(slots) /\ ~AnyRejected(run.slots)
  IN /\ entries' = [entries EXCEPT ![i] = step.obj]
     /\ run' = [run EXCEPT !.slots = slots,
                           !.result = IF step.next = "resolved"
                                      THEN add(@, step.value) ELSE @]
     /\ nextOid' = nextOid + step.used
     /\ reqLog' = IF step.next = "pending"
                  THEN Append(reqLog, Logged(<<i>>, step.obj, step.req)) ELSE reqLog
     /\ failures' = IF step.next = "rejected"
                    THEN Append(failures, Failed(<<i>>, step.cause)) ELSE failures
     /\ delivered' = IF failed THEN Append(delivered, Rejection) ELSE delivered
     /\ stage' = IF failed /\ stage # "client" THEN "rejected" ELSE stage
     /\ UNCHANGED <<lib, ordering, grouping, unique, pass, output>>

\* a step of the chain of album j in the queue the Artist at position i
\* dispatches; when that queue's chain rejects, so does the Artist's promise
NestedStep(i, j, step) ==
  LET sub == run.slots[i].sub
      newSub == [sub EXCEPT !.objs[j] = step.obj,
                            !.slots[j] = SlotAfter(step),
                            !.result = IF step.next = "resolved"
                                       THEN add(@, step.value) ELSE @]
      slots == [run.slots EXCEPT ![i] = IF AnyRejected(newSub.slots)
                                        THEN [SlotAfterFailure EXCEPT !.sub = newSub]
                                        ELSE [@ EXCEPT !.sub = newSub]]
      failed == AnyRejected(slots) /\ ~AnyRejected(run.slots)
  IN /\ run' = [run EXCEPT !.slots = slots]
     /\ nextOid' = nextOid + step.used
     /\ reqLog' = IF step.next = "pending"
                  THEN Append(reqLog, Logged(<<i, j>>, step.obj, step.req)) ELSE reqLog
     /\ failures' = IF step.next = "rejected"
                    THEN Append(failures, Failed(<<i, j>>, step.cause)) ELSE failures
     /\ delivered' = IF failed THEN Append(delivered, Rejection) ELSE delivered
     /\ stage' = IF failed /\ stage # "client" THEN "rejected" ELSE stage
     /\ UNCHANGED <<lib, ordering, grouping, unique, entries, pass, output>>

\* fn(entry) is called for the element at position i
Invoke(i) ==
  /\ i \in DOMAIN run.slots
  /\ run.slots[i].st = "waiting"
  /\ Ready(run.slots, i)
  /\ TopStep(i, IF run.fn = "dispatch" THEN EntryDispatch(entries[i])
                ELSE EntryFetchLastfm(entries[i]))

\* the remote answers the request of the element at position i
Settle(i) ==
  /\ i \in DOMAIN run.slots
  /\ run.slots[i].st = "pending"
  /\ \E outcome \in Respond(run.slots[i].req) :
       TopStep(i, Settled(entries[i], run.slots[i].req, outcome, nextOid))

\* album j of the Artist at position i is dispatched
InvokeNested(i, j) ==
  /\ i \in DOMAIN run.slots
  /\ run.slots[i].st = "nested"
  /\ j \in DOMAIN run.slots[i].sub.slots
  /\ run.slots[i].sub.slots[j].st = "waiting"
  /\ Ready(run.slots[i].sub.slots, j)
  /\ NestedStep(i, j, EntryDispatch(run.slots[i].sub.objs[j]))

\* the remote answers the request of album j of the Artist at position i
SettleNested(i, j) ==
  /\ i \in DOMAIN run.slots
  /\ run.slots[i].st = "nested"
  /\ j \in DOMAIN run.slots[i].sub.slots
  /\ run.slots[i].sub.slots[j].st = "pending"
  /\ \E outcome \in Respond(run.slots[i].sub.slots[j].req) :
       NestedStep(i, j, Settled(run.slots[i].sub.objs[j], run.slots[i].sub.slots[j].req,
                                outcome, nextOid))

\* the queue of albums of the Artist at position i has been dispatched: the
\* Artist's promise resolves with the queue of their results
ResolveNested(i) ==
  /\ i \in DOMAIN run.slots
  /\ run.slots[i].st = "nested"
  /\ AllAdded(run.slots[i].sub.slots)
  /\ run' = [run EXCEPT !.slots[i] = [st |-> "added", req |-> NoReq, sub |-> Null],
                        !.result = add(@, NewQueue(run.slots[i].sub.result))]
  /\ UNCHANGED <<lib, ordering, grouping, unique, entries, stage, pass, nextOid, reqLog,
                 failures, delivered, output>>

\* the promise of resolveAll is fulfilled with the queue of results
Fulfilled == run.fn # "none" /\ AllAdded(run.slots)

Delivery == [pass |-> pass, ok |-> TRUE, value |-> NewQueue(run.result)]

(***************************************************************************)
(* Playlist.dispatch: fetchTracks, dedup, order, group, toString.          *)
(***************************************************************************)
Throw ==
  /\ stage' = "rejected"
  /\ failures' = Append(failures, Failed(<<>>, "TypeError"))
  /\ UNCHANGED <<lib, ordering, grouping, unique, entries, run, pass, nextOid, reqLog,
                 delivered, output>>

\* self.entries.dispatch(), or self.entries.resolveAll(fetchLastfm)
StartRun(fn, next) ==
  /\ run' = resolveAll(entries, fn)
  /\ pass' = pass + 1
  /\ stage' = next
  /\ UNCHANGED <<lib, ordering, grouping, unique, entries, nextOid, reqLog, failures,
                 delivered, output>>

\* the callback of fetchTracks and refreshTracks
EndRun(next) ==
  /\ Fulfilled
  /\ entries' = flatten(run.result)
  /\ run' = NoRun
  /\ delivered' = Append(delivered, Delivery)
  /\ stage' = next
  /\ UNCHANGED <<lib, ordering, grouping, unique, pass, nextOid, reqLog, failures, output>>

\* a synchronous stage that replaces the array of self.entries
Stage(result, next) ==
  IF result.threw THEN Throw
  ELSE /\ entries' = result.queue
       /\ stage' = next
       /\ UNCHANGED <<lib, ordering, grouping, unique, run, pass, nextOid, reqLog, failures,
                      delivered, output>>

PlaylistDispatch == stage = "new" /\ StartRun("dispatch", "fetchTracks")

FetchTracksDone == stage = "fetchTracks" /\ EndRun("dedup")

Dedup ==
  /\ stage = "dedup"
  /\ Stage(IF unique THEN dedup(entries) ELSE Returned(entries), "order")

\* the queue is sorted as it is, without the tracks being dispatched again
OrderAsIs ==
  /\ stage = "order"
  /\ CASE ordering = "popularity" -> Stage(Returned(entries), "orderByPopularity")
       [] ordering = "lastfm" -> StartRun("fetchLastfm", "fetchLastfm")
       [] OTHER -> Stage(Returned(entries), "group")

Order ==
  /\ stage = "order"
  /\ CASE ordering = "popularity" -> StartRun("dispatch", "refreshTracks")
       [] ordering = "lastfm" -> StartRun("fetchLastfm", "fetchLastfm")
       [] OTHER -> Stage(Returned(entries), "group")

RefreshTracksDone == stage = "refreshTracks" /\ EndRun("orderByPopularity")

\* the callback of Playlist.fetchLastfm
FetchLastfmDone ==
  /\ stage = "fetchLastfm"
  /\ Fulfilled
  /\ run' = NoRun
  /\ delivered' = Append(delivered, Delivery)
  /\ stage' = "orderByLastfm"
  /\ UNCHANGED <<lib, ordering, grouping, unique, entries, pass, nextOid, reqLog, failures,
                 output>>

HasUndefined(q) == \E i \in 1..Len(q) : q[i].kind = "undefined"

OrderByPopularity ==
  /\ stage = "orderByPopularity"
  /\ IF HasUndefined(entries)
     THEN Stage(IF Len(entries) > 1 THEN Thrown ELSE Returned(entries), "group")
     ELSE \E sorted \in sort(entries, "byPopularity") : Stage(Returned(sorted), "group")

OrderByLastfm ==
  /\ stage = "orderByLastfm"
  /\ IF HasUndefined(entries)
     THEN Stage(IF Len(entries) > 1 THEN Thrown ELSE Returned(entries), "group")
     ELSE \E sorted \in sort(entries, "byLastfm") : Stage(Returned(sorted), "group")

Group ==
  /\ stage = "group"
  /\ CASE grouping = "artist" -> Stage(group(entries, "artist"), "toString")
       [] grouping = "album" -> StartRun("dispatch", "refreshForGroup")
       [] grouping = "entry" -> Stage(group(entries, "entry"), "toString")
       [] OTHER -> Stage(Returned(entries), "toString")

RefreshForGroupDone == stage = "refreshForGroup" /\ EndRun("groupByAlbum")

GroupByAlbum ==
  /\ stage = "groupByAlbum"
  /\ Stage(group(entries, "album"), "toString")

Render ==
  /\ stage = "toString"
  /\ IF playlistToString(entries).threw THEN Throw
     ELSE /\ output' = [resolved |-> TRUE, lines |-> playlistToString(entries).queue]
          /\ stage' = "resolved"
          /\ UNCHANGED <<lib, ordering, grouping, unique, entries, run, pass, nextOid,
                         reqLog, failures, delivered>>

(***************************************************************************)
(* A client that calls dispatch() on its queue again and again, keeping    *)
(* the entries (as the tests do with a single entry); it stops at the      *)
(* first dispatch that is rejected.                                        *)
(***************************************************************************)
ClientDispatch ==
  /\ stage = "client"
  /\ run.fn = "none"
  /\ pass < MaxDispatch
  /\ StartRun("dispatch", "client")

ClientDone ==
  /\ stage = "client"
  /\ Fulfilled
  /\ run' = NoRun
  /\ delivered' = Append(delivered, Delivery)
  /\ UNCHANGED <<lib, ordering, grouping, unique, entries, stage, pass, nextOid, reqLog,
                 failures, output>>

(***************************************************************************)
(* A caller of the Queue methods, as the unit tests are: it fills queues   *)
(* with entries and calls dedup, flatten and concat on them.               *)
(***************************************************************************)
\* the entries the caller adds: Tracks (two of them equal but for the case),
\* an Album (which has no equals method) and a Queue of a Track and a Queue
LibEntries ==
  {Track(1, FreeTextLine, Null), Track(2, UpperTextLine, Null),
   Track(3, <<"b", "a", "r">>, Null), Album(4, FreeTextLine, Null),
   NewQueue(<<Track(5, FreeTextLine, Null), NewQueue(<<Album(6, FreeTextLine, Null)>>)>>)}

InitLibrary ==
  \E q1 \in SeqsUpTo(LibEntries, MaxEntries) :
    \E q2 \in SeqsUpTo(LibEntries, 1) :
      /\ ordering = "none"
      /\ grouping = "none"
      /\ unique = TRUE
      /\ entries = <<>>
      /\ stage = "library"
      /\ run = NoRun
      /\ pass = 0
      /\ nextOid = 7
      /\ reqLog = <<>>
      /\ failures = <<>>
      /\ delivered = <<>>
      /\ output = NoOutput
      /\ lib = [NoLib EXCEPT !.arrays = <<q1, q2>>, !.queue = 1, !.other = 2]

\* a method call that leaves the queue with a new array
Calls(op, array) ==
  /\ stage = "library"
  /\ lib.ops < MaxCalls
  /\ lib' = [lib EXCEPT !.arrays = Append(@, array), !.queue = Len(lib.arrays) + 1,
                        !.op = op, !.ops = @ + 1]
  /\ UNCHANGED <<ordering, grouping, unique, entries, stage, run, pass, nextOid, reqLog,
                 failures, delivered, output>>

\* queue.dedup(): self.queue = result.queue
LibDedup ==
  /\ ~dedup(lib.arrays[lib.queue]).threw
  /\ Calls("dedup", dedup(lib.arrays[lib.queue]).queue)

\* queue.flatten(): self.queue = result
LibFlatten ==
  /\ stage = "library"
  /\ Calls("flatten", flatten(lib.arrays[lib.queue]))

\* the entries of the other queue are pushed onto the array of this queue,
\* which the result shares
concatInPlace(arrays, self, other) ==
  [arrays |-> [arrays EXCEPT ![self] = @ \o arrays[other]], result |-> self]

\* Queue.concat: result.queue is set to self.queue, then to the array that
\* Array.prototype.concat returns, which is a new one
concat(arrays, self, other) ==
  [arrays |-> Append(arrays, arrays[self] \o arrays[other]), result |-> Len(arrays) + 1]

\* queue.concat(other)
LibConcat ==
  /\ stage = "library"
  /\ lib.ops < MaxCalls
  /\ lib' = [lib EXCEPT !.arrays = concat(lib.arrays, lib.queue, lib.other).arrays,
                        !.result = concat(lib.arrays, lib.queue, lib.other).result,
                        !.op = "concat", !.ops = @ + 1]
  /\ UNCHANGED <<ordering, grouping, unique, entries, stage, run, pass, nextOid, reqLog,
                 failures, delivered, output>>

\* result.add(entry) on the Queue that concat returned
LibAdd ==
  /\ stage = "library"
  /\ lib.ops < MaxCalls + 1
  /\ lib.op = "concat"
  /\ \E entry \in LibEntries :
       lib' = [lib EXCEPT !.arrays[lib.result] = add(@, entry), !.op = "add", !.ops = @ + 1]
  /\ UNCHANGED <<ordering, grouping, unique, entries, stage, run, pass, nextOid, reqLog,
                 failures, delivered, output>>

(***************************************************************************)
(* A caller of sort.js: it sorts an array of track objects with            *)
(* stableSort and calls a combination of synthetic comparison functions.   *)
(***************************************************************************)
SortInputs ==
  {FullTrack(<<"a">>), FullTrack(<<"b">>), FullTrack(<<"c">>), SimplifiedTrack(<<"c">>)}

InitSort ==
  \E arr \in SeqsUpTo(SortInputs, MaxArr) :
    \E fn \in {popularity, ascending("popularity")} :
      /\ ordering = "none"
      /\ grouping = "none"
      /\ unique = TRUE
      /\ entries = <<>>
      /\ stage = "sort"
      /\ run = NoRun
      /\ pass = 0
      /\ nextOid = 1
      /\ reqLog = <<>>
      /\ failures = <<>>
      /\ delivered = <<>>
      /\ output = NoOutput
      /\ lib = [NoLib EXCEPT !.arrays = <<arr>>, !.queue = 1, !.fn = fn]

\* sort.stableSort(arr, fn)
SortStable ==
  /\ stage = "sort"
  /\ lib.op = "none"
  /\ \E sorted \in stableSort(lib.arrays[lib.queue], lib.fn) :
       lib' = [lib EXCEPT !.arrays = Append(@, sorted), !.result = Len(lib.arrays) + 1,
                          !.op = "stableSort", !.ops = @ + 1]
  /\ UNCHANGED <<ordering, grouping, unique, entries, stage, run, pass, nextOid, reqLog,
                 failures, delivered, output>>

\* sort.combine(c1, ..., cn)(a, b) for synthetic comparison functions
SortCombine ==
  /\ stage = "sort"
  /\ lib.op # "combine"
  /\ \E vals \in SeqsUpTo({-1, 0, 1}, MaxCmp) \ {<<>>} :
       LET args == [n \in 1..Len(vals) |-> synthetic(n, vals[n])]
           called == call(combine(args), 0, 0)
       IN lib' = [lib EXCEPT !.combined = [vals |-> vals, val |-> called.val,
                                            consulted |-> called.consulted],
                             !.op = "combine", !.ops = @ + 1]
  /\ UNCHANGED <<ordering, grouping, unique, entries, stage, run, pass, nextOid, reqLog,
                 failures, delivered, output>>

(***************************************************************************)
(* Specifications.                                                         *)
(***************************************************************************)
Chain ==
  \/ \E i \in 1..Len(entries) : Invoke(i)
  \/ \E i \in 1..Len(entries) : Settle(i)
  \/ \E i \in 1..Len(entries) : \E j \in 1..MaxAlbums : InvokeNested(i, j)
  \/ \E i \in 1..Len(entries) : \E j \in 1..MaxAlbums : SettleNested(i, j)
  \/ \E i \in 1..Len(entries) : ResolveNested(i)

Next ==
  \/ PlaylistDispatch
  \/ FetchTracksDone
  \/ Dedup
  \/ Order
  \/ RefreshTracksDone
  \/ FetchLastfmDone
  \/ OrderByPopularity
  \/ OrderByLastfm
  \/ Group
  \/ RefreshForGroupDone
  \/ GroupByAlbum
  \/ Render
  \/ Chain

Spec == Init /\ [][Next]_vars

\* the event loop runs a callback whose promise has settled, and every
\* remote request is answered in the end, successfully or not
SpecLive == InitLive /\ [][Next]_vars /\ WF_vars(Next)

NextClient ==
  \/ ClientDispatch
  \/ ClientDone
  \/ Chain

SpecClient == InitClient /\ [][NextClient]_vars

SpecSeeded == InitSeeded /\ [][NextClient]_vars

NextLibrary ==
  \/ LibDedup
  \/ LibFlatten
  \/ LibConcat
  \/ LibAdd

SpecLibrary == InitLibrary /\ [][NextLibrary]_vars

NextSort ==
  \/ SortStable
  \/ SortCombine

SpecSort == InitSort /\ [][NextSort]_vars

(***************************************************************************)
(* Derived state used by the properties.                                   *)
(***************************************************************************)
\* the invocations of fn that have started and not settled
InFlight(slots) == {i \in DOMAIN slots : slots[i].st \in {"pending", "nested"}}

\* the remote requests that have been issued and not answered
Outstanding ==
  {<<i>> : i \in {i \in DOMAIN run.slots : run.slots[i].st = "pending"}} \cup
  UNION {{<<i, j>> : j \in {j \in DOMAIN run.slots[i].sub.slots :
                               run.slots[i].sub.slots[j].st = "pending"}} :
           i \in {i \in DOMAIN run.slots : run.slots[i].st = "nested"}}

\* the elements of a chain are invoked one after the other
InOrder(slots) ==
  \A i \in DOMAIN slots :
    i > 1 /\ slots[i].st # "waiting" => slots[i - 1].st = "added"

\* the nested chains of the run
SubsOf(slots) == {slots[i].sub : i \in {i \in DOMAIN slots : slots[i].sub # Null}}

(***************************************************************************)
(* C1: resolveAll invokes fn on the elements in queue order and starts the *)
(* invocation for an element only when the promise of the element before   *)
(* it has settled, so that at most one invocation of fn is in flight - in  *)
(* the chain over the entries and in the chain over an Artist's albums.    *)
(***************************************************************************)
C1_OneAtATime ==
  /\ InOrder(run.slots)
  /\ Cardinality(InFlight(run.slots)) <= 1
  /\ \A sub \in SubsOf(run.slots) :
       InOrder(sub.slots) /\ Cardinality(InFlight(sub.slots)) <= 1

\* the second element is in flight, after the first has been added
C1_Witness ==
  /\ Len(run.slots) >= 2
  /\ run.slots[1].st = "added"
  /\ run.slots[2].st = "pending"

(***************************************************************************)
(* C2: when fn fails for the element at position k, the promise of         *)
(* resolveAll rejects, fn is not invoked for any later element, and no     *)
(* result queue is delivered for that call.                                *)
(***************************************************************************)
FailsFast(slots, k) ==
  /\ slots[k].st = "rejected"
  /\ \A j \in DOMAIN slots : j > k => slots[j].st = "waiting"

C2_FailFast ==
  \A n \in DOMAIN failures :
    failures[n].path # <<>> /\ failures[n].pass = pass =>
      /\ FailsFast(run.slots, failures[n].path[1])
      /\ Len(failures[n].path) = 2 =>
           FailsFast(run.slots[failures[n].path[1]].sub.slots, failures[n].path[2])
      /\ stage = "rejected"
      /\ \A d \in DOMAIN delivered : delivered[d].pass = pass => ~delivered[d].ok
      /\ \E d \in DOMAIN delivered : delivered[d] = Rejection

\* fn failed for the first of two elements
C2_Witness ==
  /\ Len(run.slots) = 2
  /\ \E n \in DOMAIN failures : failures[n].path = <<1>>
  /\ run.slots[2].st = "waiting"
  /\ stage = "rejected"

(***************************************************************************)
(* C3: during Playlist.dispatch at most one remote request is outstanding  *)
(* at any time, in every pass and in the album dispatches nested in an     *)
(* Artist, and the requests of one pass are issued in the order of the     *)
(* entries: all those of the entry at position i before any of a later     *)
(* entry (and, inside an Artist, album by album).                          *)
(***************************************************************************)
C3_OneRequest ==
  /\ Cardinality(Outstanding) <= 1
  /\ \A m, n \in DOMAIN reqLog :
       m < n /\ reqLog[m].pass = reqLog[n].pass =>
         /\ reqLog[m].path[1] <= reqLog[n].path[1]
         /\ reqLog[m].path[1] = reqLog[n].path[1] /\ Len(reqLog[m].path) = 2 =>
              Len(reqLog[n].path) = 2 /\ reqLog[m].path[2] <= reqLog[n].path[2]

\* requests were issued for two entries, one of them an Artist with two
\* albums, and a later pass has issued a request too
C3_Witness ==
  /\ \E m, n \in DOMAIN reqLog :
       /\ reqLog[m].pass = 1 /\ reqLog[n].pass = 1
       /\ reqLog[m].path = <<1, 2>> /\ reqLog[n].path = <<2>>
  /\ \E n \in DOMAIN reqLog : reqLog[n].pass = 2
  /\ Cardinality(Outstanding) = 1

(***************************************************************************)
(* C4: a Track whose search has no match is not an error: when no remote   *)
(* lookup has failed, Playlist.dispatch does not reject (the unmatched     *)
(* track is left out of the output and the other URIs are produced).       *)
(***************************************************************************)
LookupFailed == \E n \in DOMAIN failures : failures[n].cause = "lookup"

C4_NoMatchIsNoError == stage = "rejected" => LookupFailed

(***************************************************************************)
(* C5: when a remote lookup fails for an entry (a failed request, an album *)
(* or artist search without match, a failure of an album nested in an      *)
(* Artist), Playlist.dispatch rejects: there is no output, and no request  *)
(* is issued after the failure - no retry, and none for a later entry.     *)
(***************************************************************************)
C5_LookupFailureRejects ==
  \A n \in DOMAIN failures :
    failures[n].cause = "lookup" =>
      /\ stage = "rejected"
      /\ ~output.resolved
      /\ Len(reqLog) = failures[n].at
      /\ Outstanding = {}

\* the lookup of the first album of an Artist failed, with a second entry
\* behind the Artist
C5_Witness ==
  /\ Len(run.slots) = 2
  /\ \E n \in DOMAIN failures :
       failures[n].path = <<1, 1>> /\ failures[n].cause = "lookup"
  /\ stage = "rejected"

(***************************************************************************)
(* C6: a Track whose entry is a web link to a track is dispatched by a     *)
(* fetch-by-id request, with no search request, as a Track whose entry is  *)
(* a spotify:track: URI is.                                                *)
(***************************************************************************)
C6_LinkFetchedById ==
  \A n \in DOMAIN reqLog : isLink(reqLog[n].entry) => reqLog[n].type # "searchTrack"

(***************************************************************************)
(* C7: a Track constructed from a spotify:track: URI goes from UNRESOLVED  *)
(* straight to FULL on its first dispatch: one fetch-by-id request is      *)
(* issued for it, with the id of the URI, and never a search request.      *)
(***************************************************************************)
\* the first pass has dispatched the element at position i
FirstDispatchDone(i) ==
  IF pass = 0 THEN FALSE
  ELSE IF pass = 1 /\ run.fn # "none" THEN run.slots[i].st = "added"
  ELSE TRUE

C7_URIStraightToFull ==
  /\ \A n \in DOMAIN reqLog :
       isURI(reqLog[n].entry) /\ reqLog[n].type # "lastfm" =>
         /\ reqLog[n].type = "fetchTrack"
         /\ reqLog[n].arg = encodeURIComponent(substring(reqLog[n].entry, 14))
         /\ \A m \in DOMAIN reqLog :
              reqLog[m].oid = reqLog[n].oid /\ reqLog[m].type # "lastfm" => m = n
  /\ \A i \in DOMAIN entries :
       entries[i].kind = "Track" /\ isURI(entries[i].entry) =>
         IF FirstDispatchDone(i)
         THEN /\ TrackState(entries[i]) = "FULL"
              /\ \E n \in DOMAIN reqLog :
                   reqLog[n].oid = entries[i].oid /\ reqLog[n].type = "fetchTrack"
         ELSE TrackState(entries[i]) = "UNRESOLVED"

\* the playlist has been rendered with a URI track in it
C7_Witness ==
  /\ stage = "resolved"
  /\ \E i \in DOMAIN entries :
       isURI(entries[i].entry) /\ TrackState(entries[i]) = "FULL"

(***************************************************************************)
(* C8: a Track constructed from free text whose search has a match is      *)
(* SIMPLIFIED after its first dispatch, which issues one search request    *)
(* and no fetch-by-id request; its second dispatch issues one fetch-by-id  *)
(* request with the matched id, no search request, and leaves it FULL.     *)
(***************************************************************************)
RequestsOf(oid, p) == SelectSeq(reqLog, LAMBDA r : r.oid = oid /\ r.pass = p)

C8_TextTrackTwoSteps ==
  \A i \in DOMAIN entries :
    /\ entries[i].kind = "Track"
    /\ ~isURI(entries[i].entry)
    /\ delivered # <<>>
    /\ delivered[1].ok
    /\ delivered[1].value.queue[i].kind = "Track"
    => /\ TrackState(delivered[1].value.queue[i]) = "SIMPLIFIED"
       /\ Len(RequestsOf(entries[i].oid, 1)) = 1
       /\ RequestsOf(entries[i].oid, 1)[1].type = "searchTrack"
       /\ pass = 1 => TrackState(entries[i]) = "SIMPLIFIED"
       /\ \A n \in DOMAIN reqLog :
            reqLog[n].oid = entries[i].oid /\ reqLog[n].pass >= 2 =>
              /\ reqLog[n].type = "fetchTrack"
              /\ reqLog[n].arg =
                   encodeURIComponent(delivered[1].value.queue[i].responseSimple.id)
       /\ Len(RequestsOf(entries[i].oid, 2)) <= 1
       /\ Len(delivered) >= 2 /\ delivered[2].ok =>
            /\ TrackState(entries[i]) = "FULL"
            /\ Len(RequestsOf(entries[i].oid, 2)) = 1

\* a free-text track has been dispatched twice and is FULL
C8_Witness ==
  /\ Len(delivered) >= 2
  /\ delivered[1].ok /\ delivered[2].ok
  /\ entries[1].kind = "Track"
  /\ entries[1].entry = FreeTextLine
  /\ TrackState(entries[1]) = "FULL"

(***************************************************************************)
(* C9: dispatching a Track that is FULL issues no remote request, resolves *)
(* with the Track itself and leaves its data unchanged, each time.         *)
(***************************************************************************)
C9_FullTrackNoOp ==
  [][\A i \in DOMAIN run.slots :
       /\ pass' = pass
       /\ run.fn = "dispatch"
       /\ run.slots[i].st = "waiting"
       /\ run'.fn = "dispatch"
       /\ run'.slots[i].st # "waiting"
       /\ entries[i].kind = "Track"
       /\ TrackState(entries[i]) = "FULL"
       => /\ reqLog' = reqLog
          /\ entries' = entries
          /\ run'.slots[i].st = "added"
          /\ run'.result = Append(run.result, entries[i])]_vars

\* a URI track has gone through three passes with a single request
C9_Witness ==
  /\ pass = 3
  /\ \E i \in DOMAIN run.slots :
       /\ run.slots[i].st = "added"
       /\ entries[i].kind = "Track"
       /\ isURI(entries[i].entry)
       /\ Cardinality({n \in DOMAIN reqLog : reqLog[n].oid = entries[i].oid}) = 1

(***************************************************************************)
(* C10, as claimed: after a first dispatch that succeeded, dispatching an  *)
(* Album or an Artist again issues no search request and no album-record   *)
(* or album-listing request.                                               *)
(***************************************************************************)
ListingTypes == {"searchAlbum", "fetchAlbum", "searchArtist", "fetchAlbums"}

Redispatched(i) ==
  /\ pass >= 2
  /\ run.fn = "dispatch"
  /\ run.slots[i].st # "waiting"

RequestedNow(oid, type) ==
  \E n \in DOMAIN reqLog :
    reqLog[n].pass = pass /\ reqLog[n].oid = oid /\ reqLog[n].type = type

AlbumInvoked(i) ==
  /\ pass' = pass
  /\ run.fn = "dispatch"
  /\ run'.fn = "dispatch"
  /\ run.slots[i].st = "waiting"
  /\ run'.slots[i].st # "waiting"
  /\ entries[i].kind = "Album"

\* this step issues one request of the given type and argument for entry i
Issues(i, type, arg) ==
  /\ Len(reqLog') = Len(reqLog) + 1
  /\ reqLog'[Len(reqLog')].oid = entries[i].oid
  /\ reqLog'[Len(reqLog')].type = type
  /\ reqLog'[Len(reqLog')].arg = encodeURIComponent(arg)

HoldsFullRecord(album) ==
  /\ album.albumResponse # Null
  /\ album.albumResponse.hasTracks

ListingReceived(i) ==
  /\ run.slots[i].st = "pending"
  /\ run.slots[i].req.type = "fetchAlbums"
  /\ run'.fn = run.fn
  /\ run'.slots[i].st = "nested"

\* this step resolves the promise of the Artist at position i
ArtistResolved(i) ==
  /\ run.slots[i].st = "nested"
  /\ run'.fn = run.fn
  /\ run'.slots[i].st = "added"

\* the track listings of the albums, one after the other
RECURSIVE TrackListings(_)
TrackListings(albums) ==
  IF albums = <<>> THEN <<>>
  ELSE FullAlbum(Head(albums).albumResponse.id).items \o TrackListings(Tail(albums))

C12_ArtistTracks ==
  [][\A i \in DOMAIN run.slots :
       /\ ListingReceived(i) =>
            \E outcome \in {o \in Respond(run.slots[i].req) : o.ok} :
              /\ outcome.body.hasItems
              /\ [j \in DOMAIN run'.slots[i].sub.objs |->
                    run'.slots[i].sub.objs[j].albumResponse] = outcome.body.items
       /\ ArtistResolved(i) =>
            LET got == flatten(<<run'.result[Len(run'.result)]>>)
                want == TrackListings(run.slots[i].sub.objs)
            IN /\ Len(run'.result) = i
               /\ Len(got) = Len(want)
               /\ \A k \in DOMAIN got :
                    /\ got[k].kind = "Track"
                    /\ got[k].responseSimple = want[k]
                    /\ TrackState(got[k]) = "SIMPLIFIED"]_vars

\* an Artist with two albums in its listing has resolved, with four Tracks
C12_Witness ==
  /\ run.fn = "dispatch"
  /\ \E i \in DOMAIN run.slots :
       /\ entries[i].kind = "Artist"
       /\ run.slots[i].st = "added"
       /\ Len(run.result) >= i
       /\ run.result[i].kind = "Queue"
       /\ Len(run.result[i].queue) = 2
       /\ Len(flatten(<<run.result[i]>>)) = 4

(***************************************************************************)
(* C13: when Queue.resolveAll(fn) succeeds, it resolves to a new Queue as  *)
(* long as the source queue, whose element at position i is the value fn   *)
(* produced for the source element at position i; the sequence of the      *)
(* source queue is left unchanged.                                         *)
(***************************************************************************)
\* value is what dispatch() resolves to for the entry src: the Track itself
\* (or undefined), the Tracks of the Album, the queues of the Artist's albums
Produced(src, value) ==
  CASE src.kind = "Track" ->
         value = Undefined \/ (value.kind = "Track" /\ value.oid = src.oid)
    [] src.kind = "Album" ->
         /\ value.kind = "Queue"
         /\ \A t \in DOMAIN value.queue :
              value.queue[t].kind = "Track" /\ value.queue[t].entry = src.entry
    [] OTHER ->
         /\ value.kind = "Queue"
         /\ \A t \in DOMAIN value.queue : value.queue[t].kind = "Queue"

C13_ResultInOrder ==
  /\ [](\A k \in DOMAIN delivered :
          delivered[k].ok =>
            /\ Len(delivered[k].value.queue) = Len(entries)
            /\ \A i \in DOMAIN entries :
                 Produced(entries[i], delivered[k].value.queue[i]))
  /\ [][/\ Len(entries') = Len(entries)
        /\ \A i \in DOMAIN entries :
             /\ entries'[i].oid = entries[i].oid
             /\ entries'[i].kind = entries[i].kind
        /\ \A i \in DOMAIN run.slots :
             run'.fn = run.fn /\ run.slots[i].st # "added" /\ run'.slots[i].st = "added" =>
               /\ Len(run.result) = i - 1
               /\ Len(run'.result) = i
               /\ SubSeq(run'.result, 1, i - 1) = run.result
               /\ Produced(entries'[i], run'.result[i])
               /\ entries'[i].kind = "Track" /\ run'.result[i] # Undefined =>
                    run'.result[i] = entries'[i]]_vars

\* a queue of a Track and an Album has been dispatched with success
C13_Witness ==
  /\ delivered # <<>>
  /\ delivered[1].ok
  /\ Len(entries) = 2
  /\ entries[1].kind = "Track" /\ entries[2].kind = "Album"
  /\ delivered[1].value.queue[1].kind = "Track"
  /\ Len(delivered[1].value.queue[2].queue) = 2

(***************************************************************************)
(* C14: Queue.group(keyFn) outputs the buckets in the order in which each  *)
(* key first appears in the queue and keeps the original relative order    *)
(* inside a bucket, whatever the keys are (numeric strings in descending   *)
(* order included); the output is a permutation of the input.              *)
(***************************************************************************)
InputIndex(q, e) == CHOOSE i \in DOMAIN q : q[i].oid = e.oid

FirstIndex(q, fn, key) ==
  CHOOSE i \in DOMAIN q :
    /\ keyOf(fn, q[i]) = key
    /\ \A j \in 1..(i - 1) : keyOf(fn, q[j]) # key

GroupedByFirstAppearance(q, out, fn) ==
  /\ Len(out) = Len(q)
  /\ \A i \in DOMAIN q : \E x \in DOMAIN out : out[x] = q[i]
  /\ \A x, y \in DOMAIN out :
       x < y =>
         IF keyOf(fn, out[x]) = keyOf(fn, out[y])
         THEN InputIndex(q, out[x]) < InputIndex(q, out[y])
         ELSE FirstIndex(q, fn, keyOf(fn, out[x])) < FirstIndex(q, fn, keyOf(fn, out[y]))

C14_GroupKeepsFirstAppearance ==
  [][/\ stage = "group" /\ stage' = "toString" /\ grouping \in {"artist", "entry"} =>
          GroupedByFirstAppearance(entries, entries', grouping)
     /\ stage = "groupByAlbum" /\ stage' = "toString" =>
          GroupedByFirstAppearance(entries, entries', "album")]_vars

(***************************************************************************)
(* C15: Queue.sort(cmp) is a stable reorder: the result is a permutation   *)
(* of the queue ordered by cmp, and elements that cmp ranks equal keep     *)
(* their original relative order.  Ordering a playlist by popularity puts  *)
(* higher popularity first and leaves equally popular tracks in input      *)
(* order.                                                                  *)
(***************************************************************************)
StablySorted(q, out, fn) ==
  /\ Len(out) = Len(q)
  /\ \A i \in DOMAIN q : \E x \in DOMAIN out : out[x] = q[i]
  /\ \A x, y \in DOMAIN out :
       x < y =>
         /\ compare(fn, out[x], out[y]) <= 0
         /\ compare(fn, out[x], out[y]) = 0 =>
              InputIndex(q, out[x]) < InputIndex(q, out[y])

C15_SortIsStable ==
  [][/\ stage = "orderByPopularity" /\ stage' = "group" /\ ~HasUndefined(entries) =>
          StablySorted(entries, entries', "byPopularity")
     /\ stage = "orderByLastfm" /\ stage' = "group" /\ ~HasUndefined(entries) =>
          StablySorted(entries, entries', "byLastfm")]_vars

(***************************************************************************)
(* C16: Queue.dedup keeps exactly the first occurrence of each element     *)
(* under the equality of the queue (the element's equals method, else      *)
(* reference identity), in the order of the first occurrences, and is      *)
(* idempotent: dedup of a deduplicated queue changes nothing.              *)
(***************************************************************************)
\* the elements of q that no earlier element of q matches, in order
RECURSIVE FirstOccurrences(_, _)
FirstOccurrences(q, n) ==
  IF n = 0 THEN <<>>
  ELSE IF \E j \in 1..(n - 1) : EntryMatches(q[j], q[n])
       THEN FirstOccurrences(q, n - 1)
       ELSE Append(FirstOccurrences(q, n - 1), q[n])

C16_DedupKeepsFirst ==
  [][lib'.op = "dedup" /\ lib'.ops = lib.ops + 1 =>
       LET q == lib.arrays[lib.queue]
           out == lib'.arrays[lib'.queue]
       IN /\ out = FirstOccurrences(q, Len(q))
          /\ \A x, y \in DOMAIN out : x # y => ~EntryMatches(out[x], out[y])
          /\ lib.op = "dedup" => out = q]_vars

\* dedup has been called twice on a queue of two equal Tracks, the first
\* time removing the second Track
C16_Witness ==
  /\ lib.op = "dedup"
  /\ lib.ops = 2
  /\ Len(lib.arrays[1]) = 2
  /\ lib.arrays[1][1].kind = "Track"
  /\ lib.arrays[1][1] # lib.arrays[1][2]
  /\ Len(lib.arrays[3]) = 1
  /\ lib.arrays[4] = lib.arrays[3]

(***************************************************************************)
(* C17: Queue.flatten replaces every nested Queue, at any depth, by its    *)
(* flattened contents, depth first and left to right: afterwards no        *)
(* element is a Queue, there are as many elements as the structure had     *)
(* leaf entries, and the leaves are in their left-to-right order.          *)
(***************************************************************************)
RECURSIVE LeafCount(_)
LeafCount(q) ==
  IF q = <<>> THEN 0
  ELSE (IF Head(q).kind = "Queue" THEN LeafCount(Head(q).queue) ELSE 1)
       + LeafCount(Tail(q))

\* out lists the leaves of q from left to right
RECURSIVE LeavesInOrder(_, _)
LeavesInOrder(q, out) ==
  /\ Len(out) = LeafCount(q)
  /\ \A i \in DOMAIN q :
       LET from == LeafCount(SubSeq(q, 1, i - 1))
       IN IF q[i].kind = "Queue"
          THEN LeavesInOrder(q[i].queue, SubSeq(out, from + 1, from + LeafCount(<<q[i]>>)))
          ELSE out[from + 1] = q[i]

C17_FlattenOneLevel ==
  [][lib'.op = "flatten" /\ lib'.ops = lib.ops + 1 =>
       LET q == lib.arrays[lib.queue]
           out == lib'.arrays[lib'.queue]
       IN /\ \A x \in DOMAIN out : out[x].kind # "Queue"
          /\ LeavesInOrder(q, out)]_vars

\* flatten has been called on a queue of an entry and a Queue that holds a
\* Queue itself
C17_Witness ==
  /\ lib.op = "flatten"
  /\ Len(lib.arrays[1]) = 2
  /\ lib.arrays[1][1].kind = "Track"
  /\ lib.arrays[1][2].kind = "Queue"
  /\ \E x \in DOMAIN lib.arrays[1][2].queue : lib.arrays[1][2].queue[x].kind = "Queue"
  /\ lib.queue = 3
  /\ Len(lib.arrays[3]) = 3

(***************************************************************************)
(* C18: q1.concat(q2) returns a new Queue whose sequence is the elements   *)
(* of q1 followed by those of q2 and leaves the sequences of q1 and q2     *)
(* unchanged; a later add to the result changes neither q1 nor q2.         *)
(***************************************************************************)
\* the sequences of the two operands are what they were
OperandsUnchanged ==
  /\ lib'.queue = lib.queue
  /\ lib'.other = lib.other
  /\ lib'.arrays[lib.queue] = lib.arrays[lib.queue]
  /\ lib'.arrays[lib.other] = lib.arrays[lib.other]

C18_ConcatLeavesOperands ==
  [][/\ lib'.op = "concat" /\ lib'.ops = lib.ops + 1 =>
          /\ lib'.arrays[lib'.result] = lib.arrays[lib.queue] \o lib.arrays[lib.other]
          /\ OperandsUnchanged
     /\ lib'.op = "add" /\ lib'.ops = lib.ops + 1 =>
          /\ Len(lib'.arrays[lib'.result]) = Len(lib.arrays[lib.result]) + 1
          /\ SubSeq(lib'.arrays[lib'.result], 1, Len(lib.arrays[lib.result]))
               = lib.arrays[lib.result]
          /\ OperandsUnchanged]_vars

\* an entry has been added to the concatenation of two queues that are not
\* empty
C18_Witness ==
  /\ lib.op = "add"
  /\ lib.arrays[lib.queue] # <<>>
  /\ lib.arrays[lib.other] # <<>>
  /\ Len(lib.arrays[lib.result]) = Len(lib.arrays[lib.queue]) + Len(lib.arrays[lib.other]) + 1

(***************************************************************************)
(* C19: sort.stableSort(arr, cmp) returns a permutation of arr ordered by  *)
(* cmp in which the elements that cmp ranks equal are in the order of      *)
(* their indices in arr, whatever the sort primitive does with equal       *)
(* elements; the array arr itself is not reordered.                        *)
(***************************************************************************)
IndexOrders(n) == {p \in [1..n -> 1..n] : \A i, j \in 1..n : p[i] = p[j] => i = j}

\* out is arr in an order that cmp accepts, ties by index
StablePermutation(arr, out, cmp) ==
  /\ Len(out) = Len(arr)
  /\ \E p \in IndexOrders(Len(arr)) :
       /\ \A k \in DOMAIN out : out[k] = arr[p[k]]
       /\ \A k, l \in DOMAIN out :
            k < l =>
              \/ call(cmp, arr[p[k]], arr[p[l]]).val < 0
              \/ call(cmp, arr[p[k]], arr[p[l]]).val = 0 /\ p[k] < p[l]

C19_StableSortKeepsTies ==
  [][lib'.op = "stableSort" =>
       /\ StablePermutation(lib.arrays[lib.queue], lib'.arrays[lib'.result], lib.fn)
       /\ lib'.arrays[lib.queue] = lib.arrays[lib.queue]
       /\ lib'.result # lib.queue]_vars

\* an array of three tracks, the first less popular than the two others,
\* which are equally popular, has been sorted by popularity
C19_Witness ==
  /\ lib.op = "stableSort"
  /\ lib.fn = popularity
  /\ lib.arrays[1] = <<FullTrack(<<"a">>), FullTrack(<<"b">>), FullTrack(<<"c">>)>>
  /\ lib.arrays[2] = <<FullTrack(<<"b">>), FullTrack(<<"c">>), FullTrack(<<"a">>)>>

(***************************************************************************)
(* C20: for comparison functions that return -1, 0 or 1,                   *)
(* sort.combine(c1, ..., cn)(a, b) is the result of the leftmost ci whose  *)
(* result is not 0, and that of cn when all the earlier ones return 0; a   *)
(* comparison function is consulted only when all those before it          *)
(* returned 0.                                                             *)
(***************************************************************************)
C20_CombineLeftmost ==
  lib.op = "combine" =>
    LET vals == lib.combined.vals
        decisive == {n \in DOMAIN vals : vals[n] # 0}
        first == CHOOSE n \in decisive : \A m \in decisive : n <= m
    IN /\ lib.combined.val = IF decisive = {} THEN vals[Len(vals)] ELSE vals[first]
       /\ lib.combined.consulted =
            [n \in 1..(IF decisive = {} THEN Len(vals) ELSE first) |-> n]

\* three comparison functions have been combined, the first returning 0 and
\* the second 1: the third has not been consulted
C20_Witness ==
  /\ lib.op = "combine"
  /\ lib.combined.vals = <<0, 1, -1>>
  /\ lib.combined.val = 1
  /\ lib.combined.consulted = <<1, 2>>

(***************************************************************************)
(* C21: the resolution state of a Track never goes back.  Over every step  *)
(* (an invocation of dispatch or fetchLastfm, the answer to its request,   *)
(* successful or failed, and every stage of the playlist), a Track of the  *)
(* queue that is still in the queue afterwards is in the same state or a   *)
(* later one, and the search match and the full record it held are the     *)
(* ones it holds afterwards.                                               *)
(***************************************************************************)
TracksIn(q) == {q[i] : i \in {j \in DOMAIN q : q[j].kind = "Track"}}

StateRank(track) ==
  CASE TrackState(track) = "FULL" -> 2
    [] TrackState(track) = "SIMPLIFIED" -> 1
    [] OTHER -> 0

C21_StateMonotonic ==
  [][\A before \in TracksIn(entries) :
       \A after \in TracksIn(entries') :
         after.oid = before.oid
         => /\ StateRank(after) >= StateRank(before)
            /\ before.responseSimple # Null => after.responseSimple = before.responseSimple
            /\ before.response # Null => after.response = before.response]_vars

\* a Track found by a search and then fetched holds both records when a
\* request of the second pass over the playlist has failed
C21_Witness ==
  /\ stage = "rejected"
  /\ pass = 2
  /\ \E failure \in {failures[n] : n \in DOMAIN failures} : failure.pass = 2
  /\ \E track \in TracksIn(entries) :
       /\ track.responseSimple # Null
       /\ track.response # Null

(***************************************************************************)
(* C22: when the dispatch of an Album that held neither a search match nor *)
(* an album record has succeeded, the Album holds the search match and the *)
(* full album record that was fetched, and its id is the id of that        *)
(* record.                                                                 *)
(***************************************************************************)
\* the first dispatch of the Album at position i, constructed from a line
\* of the playlist, has resolved
AlbumDispatched(i) ==
  /\ run.fn = "dispatch"
  /\ pass = 1
  /\ run.slots[i].st = "added"
  /\ entries[i].kind = "Album"

C22_AlbumHoldsRecord ==
  \A i \in DOMAIN run.slots :
    AlbumDispatched(i) =>
      /\ isSearchResponse(entries[i].searchResponse)
      /\ HoldsFullRecord(entries[i])
      /\ AlbumId(entries[i]) = entries[i].albumResponse.id

(***************************************************************************)
(* C23: with the ordering popularity, the tracks are dispatched again      *)
(* after dedup and before the sort.  The second pass over the queue starts *)
(* from the order stage, which follows dedup; when orderByPopularity runs, *)
(* that pass has been made over every element and has delivered its        *)
(* result, no request is outstanding, and every Track of the queue that    *)
(* had a match holds its full record.                                      *)
(***************************************************************************)
HadMatch(track) == track.responseSimple # Null \/ track.response # Null

\* orderByPopularity is the next callback of the chain to run
SortIsNext == stage = "orderByPopularity"

C23_RefreshedBeforeSort ==
  /\ [](SortIsNext =>
          /\ ordering = "popularity"
          /\ run = NoRun
          /\ pass = 2
          /\ Len(delivered) = 2
          /\ delivered[2].ok
          /\ delivered[2].value.queue = entries
          /\ \A track \in TracksIn(entries) :
               HadMatch(track) => TrackState(track) = "FULL")
  /\ [][/\ (stage' = "orderByPopularity" /\ stage # "orderByPopularity")
             => stage = "refreshTracks" /\ Fulfilled
        /\ (stage' = "refreshTracks" /\ stage # "refreshTracks")
             => /\ stage = "order"
                /\ run'.fn = "dispatch"
                /\ Len(run'.slots) = Len(entries)
                /\ \A i \in DOMAIN run'.slots : run'.slots[i].st = "waiting"
        /\ (stage' = "order" /\ stage # "order") => stage = "dedup"]_vars

\* the tracks of the albums of an artist, seeded from their listings, have
\* been fetched and are about to be sorted
C23_Witness ==
  /\ SortIsNext
  /\ Len(entries) = 3
  /\ \A track \in TracksIn(entries) :
       /\ track.responseSimple # Null
       /\ TrackState(track) = "FULL"
  /\ entries[1].response.popularity < entries[2].response.popularity

(***************************************************************************)
(* C24: the stages of Playlist.dispatch run in the order dispatch and      *)
(* flatten, dedup, order, group, render.  A stage starts from the stage    *)
(* before it and only when the pass over the queue that stage made (the    *)
(* first dispatch, the re-dispatch or the rating fetch) has delivered its  *)
(* result; no pass is in progress while a synchronous stage is next.  The  *)
(* output is the list of the URIs of the final queue that are not empty,   *)
(* in queue order.                                                         *)
(***************************************************************************)
StageRank(st) ==
  CASE st = "new" -> 0
    [] st = "fetchTracks" -> 1
    [] st = "dedup" -> 2
    [] st = "order" -> 3
    [] st \in {"refreshTracks", "fetchLastfm"} -> 4
    [] st \in {"orderByPopularity", "orderByLastfm"} -> 5
    [] st = "group" -> 6
    [] st = "refreshForGroup" -> 7
    [] st = "groupByAlbum" -> 8
    [] st = "toString" -> 9
    [] OTHER -> 10

\* the stages during which a pass over the queue is made
Asynchronous == {"fetchTracks", "refreshTracks", "fetchLastfm", "refreshForGroup"}

\* the stage a stage is entered from
Previous(st) ==
  CASE st = "fetchTracks" -> {"new"}
    [] st = "dedup" -> {"fetchTracks"}
    [] st = "order" -> {"dedup"}
    [] st \in {"refreshTracks", "fetchLastfm"} -> {"order"}
    [] st = "orderByPopularity" -> {"refreshTracks"}
    [] st = "orderByLastfm" -> {"fetchLastfm"}
    [] st = "group" -> {"order", "orderByPopularity", "orderByLastfm"}
    [] st = "refreshForGroup" -> {"group"}
    [] st = "groupByAlbum" -> {"refreshForGroup"}
    [] st = "toString" -> {"group", "groupByAlbum"}
    [] st = "resolved" -> {"toString"}
    [] OTHER -> {}

NonEmptyURIs(q) ==
  SelectSeq([i \in 1..Len(q) |-> TrackUri(q[i])], LAMBDA uri : uri # <<>>)

RatingFetched(slots, i) == i \in DOMAIN slots /\ slots[i].st = "added"

C25_FetchLastfmFrame ==
  /\ [](\A i \in DOMAIN entries :
          entries[i].kind = "Track" /\ stage \in {"new", "fetchTracks", "dedup", "order"}
          => TrackLastfm(entries[i]) = -1)
  /\ [][run.fn = "fetchLastfm" /\ run'.fn = "fetchLastfm" =>
          /\ Len(entries') = Len(entries)
          /\ \A i \in DOMAIN entries :
               entries[i].kind = "Track" =>
                 /\ entries'[i].kind = "Track"
                 /\ TrackState(entries'[i]) = TrackState(entries[i])
                 /\ TrackUri(entries'[i]) = TrackUri(entries[i])
                 /\ TrackPopularity(entries'[i]) = TrackPopularity(entries[i])
                 /\ TrackId(entries'[i]) = TrackId(entries[i])
                 /\ entries'[i].entry = entries[i].entry
                 /\ entries'[i].oid = entries[i].oid
                 /\ IF RatingFetched(run'.slots, i)
                    THEN TrackLastfm(entries'[i]) =
                           parseInt(PlaycountOf(TrackTitle(entries[i])))
                    ELSE TrackLastfm(entries'[i]) = -1]_vars

\* the rating of the first track has been fetched and the fetch for the
\* second one has failed: the first is SIMPLIFIED as before with the rating
\* 7, the second has the rating -1
C25_Witness ==
  /\ stage = "rejected"
  /\ run.fn = "fetchLastfm"
  /\ Len(entries) = 3
  /\ TrackState(entries[1]) = "SIMPLIFIED"
  /\ TrackLastfm(entries[1]) = 7
  /\ run.slots[2].st = "rejected"
  /\ TrackLastfm(entries[2]) = -1

(***************************************************************************)
(* C26: a Track keeps the entry text of the playlist line it comes from.   *)
(* The entry text of an element of the queue never changes; when           *)
(* fetchTracks flattens the results, every Track that the element at       *)
(* position i resolved to (itself, the Tracks of its album, those of the   *)
(* albums of its artist) has the entry text of that element, so every      *)
(* Track of the queue has the entry text of one of the lines; grouping by  *)
(* entry keeps the Tracks and leaves those of one line next to each other. *)
(***************************************************************************)
\* the Tracks a value resolves to, through the queues it holds
RECURSIVE Leaves(_)
Leaves(value) ==
  IF value.kind = "Queue"
  THEN UNION {Leaves(value.queue[i]) : i \in DOMAIN value.queue}
  ELSE IF value.kind = "Track" THEN {value} ELSE {}

Texts(q) == {q[i].entry : i \in {j \in DOMAIN q : q[j].kind # "undefined"}}

\* the elements of q with one text are next to each other
Contiguous(q) ==
  \A i, k \in DOMAIN q :
    i < k /\ q[i].entry = q[k].entry => \A j \in i..k : q[j].entry = q[i].entry

SamePerLine(q, out) ==
  /\ Len(out) = Len(q)
  /\ \A e \in Texts(q) :
       SelectSeq(out, LAMBDA x : x.entry = e) = SelectSeq(q, LAMBDA x : x.entry = e)

C26_EntryTextKept ==
  [][/\ \A before \in TracksIn(entries) :
          \A after \in TracksIn(entries') :
            after.oid = before.oid => after.entry = before.entry
     /\ (run.fn # "none" /\ run'.fn = run.fn /\ pass' = pass) =>
          /\ Len(entries') = Len(entries)
          /\ \A i \in DOMAIN entries :
               entries[i].kind # "undefined" => entries'[i].entry = entries[i].entry
     /\ (stage = "fetchTracks" /\ stage' = "dedup") =>
          /\ Len(run.result) = Len(entries)
          /\ \A i \in DOMAIN entries :
               \A track \in Leaves(run.result[i]) : track.entry = entries[i].entry
          /\ Texts(entries') \subseteq Texts(entries)
     /\ (stage = "group" /\ stage' = "toString" /\ grouping = "entry") =>
          /\ Contiguous(entries')
          /\ SamePerLine(entries, entries')]_vars

\* two Tracks of the albums of the artist on the second line, which have
\* its text, and the Track of the first line, which has the same popularity
\* and was first before the sort, have been grouped by entry: the Tracks of
\* the artist are next to each other
C26_Witness ==
  /\ stage = "toString"
  /\ grouping = "entry"
  /\ ordering = "popularity"
  /\ Len(entries) = 3
  /\ entries[1].entry = FreeTextLine /\ entries[1].oid < entries[2].oid
  /\ entries[2].entry = FreeTextLine
  /\ entries[3].entry = LinkLine
  /\ delivered[2].value.queue[1].oid = entries[3].oid

(***************************************************************************)
(* C27: when every remote request is answered in the end, Playlist.dispatch*)
(* settles in the end: it resolves with the output or it is rejected.  On  *)
(* the way there are at most three passes over the queue, an entry is      *)
(* expanded at most two levels deep (artist to albums to tracks) and no    *)
(* object issues more than three requests (a search, a fetch, a rating).    *)
(***************************************************************************)
DispatchSettled == stage \in {"resolved", "rejected"}

\* the passes made and the requests issued up to now
Bounded ==
  /\ pass <= 3
  /\ \A n \in DOMAIN reqLog :
       /\ Len(reqLog[n].path) <= 2
       /\ Cardinality({m \in DOMAIN reqLog : reqLog[m].oid = reqLog[n].oid}) <= 3

C27_DispatchSettles == <>(DispatchSettled /\ Bounded)

\* a playlist of an artist, ordered by popularity and grouped by album, has
\* resolved after three passes over its queue
C27_Witness ==
  /\ stage = "resolved"
  /\ pass = 3
  /\ output.lines # <<>>
  /\ \E n \in DOMAIN reqLog : Len(reqLog[n].path) = 2

(***************************************************************************)
(* C28: duplicates are removed from every playlist.  The unique flag is    *)
(* true in every state, with or without a #UNIQUE line; the dedup stage    *)
(* leaves the first occurrence of every track; from then on, and in the    *)
(* queue that is rendered, no two Tracks are equal under Track.equals.     *)
(***************************************************************************)
AfterDedup ==
  {"order", "refreshTracks", "fetchLastfm", "orderByPopularity", "orderByLastfm",
   "group", "refreshForGroup", "groupByAlbum", "toString", "resolved"}

NoTwoEqual(q) ==
  \A x, y \in DOMAIN q :
    x # y /\ q[x].kind = "Track" /\ q[y].kind = "Track" => ~TrackEquals(q[x], q[y])

C28_NoDuplicatesRendered ==
  /\ [](/\ unique = TRUE
        /\ stage \in AfterDedup => NoTwoEqual(entries)
        /\ output.resolved =>
             \A m, n \in DOMAIN output.lines : m # n => output.lines[m] # output.lines[n])
  /\ [][stage = "dedup" /\ stage' = "order" =>
          entries' = FirstOccurrences(entries, Len(entries))]_vars

\* the first pass over a playlist delivered the two Tracks of an album,
\* equal but for the case of their titles, and the playlist has been
\* rendered with the first of them only
C28_Witness ==
  /\ stage = "resolved"
  /\ Len(flatten(delivered[1].value.queue)) = 2
  /\ TrackTitle(flatten(delivered[1].value.queue)[1]) = <<"X">>
  /\ TrackTitle(flatten(delivered[1].value.queue)[2]) = <<"x">>
  /\ Len(entries) = 1
  /\ TrackTitle(entries[1]) = <<"X">>
  /\ output.lines = <<TrackUri(entries[1])>>

====
